---- MODULE Spec2Model ----
(***************************************************************************)
(* Request routing and dispatch core of @antelopejs/api.                   *)
(*                                                                         *)
(*   src/src/server.ts                    segment trie, dispatcher         *)
(*   src/src/interfaces/api/beta/index.ts HTTPResult, HandlerPriority      *)
(*                                                                         *)
(* Strings that the router takes apart (locations, url paths, segments,    *)
(* parameter names and values) are sequences of one-character strings.     *)
(* Strings that are only carried around (bodies, header names and values,  *)
(* method names) are TLA+ strings.                                         *)
(***************************************************************************)
EXTENDS Integers, Sequences, FiniteSets, TLC

(***************************************************************************)
(* Bounds of the model.                                                    *)
(***************************************************************************)
MaxHandlers == 4

(***************************************************************************)
(* JavaScript plain objects used as string-keyed maps: the entries in      *)
(* insertion order, as Object.values / Object.keys enumerate them.         *)
(***************************************************************************)
ObjHas(obj, key) == \E i \in 1..Len(obj) : obj[i].key = key

ObjIdx(obj, key) == CHOOSE i \in 1..Len(obj) : obj[i].key = key

ObjGet(obj, key) == obj[ObjIdx(obj, key)].val

ObjSet(obj, key, val) ==
  IF ObjHas(obj, key)
  THEN [obj EXCEPT ![ObjIdx(obj, key)] = [key |-> key, val |-> val]]
  ELSE Append(obj, [key |-> key, val |-> val])

(***************************************************************************)
(* String primitives on character sequences.                               *)
(***************************************************************************)
RECURSIVE Split(_, _, _)
\* location.split('/') : acc is the piece being read, from position i on.
Split(str, i, acc) ==
  IF i > Len(str) THEN <<acc>>
  ELSE IF str[i] = "/" THEN <<acc>> \o Split(str, i + 1, <<>>)
  ELSE Split(str, i + 1, Append(acc, str[i]))

\* .filter((part) => part) : the empty string is falsy.
FilterParts(parts) == SelectSeq(parts, LAMBDA part : part # <<>>)

SplitPath(str) == FilterParts(Split(str, 1, <<>>))

RECURSIVE Join(_, _)
\* parts.join(sep)
Join(parts, sep) ==
  IF Len(parts) = 0 THEN <<>>
  ELSE IF Len(parts) = 1 THEN parts[1]
  ELSE parts[1] \o <<sep>> \o Join(Tail(parts), sep)

StartsWith(str, prefix) ==
  /\ Len(str) >= Len(prefix)
  /\ SubSeq(str, 1, Len(prefix)) = prefix

\* part.indexOf(':') >= 0
HasColon(str) == \E i \in 1..Len(str) : str[i] = ":"

ToLowerCase(s) ==
  CASE s = "GET" -> "get"
    [] s = "HEAD" -> "head"
    [] s = "OPTIONS" -> "options"
    [] s = "POST" -> "post"
    [] s = "ANY" -> "any"
    [] OTHER -> s

(***************************************************************************)
(* HandlerPriority                                                         *)
(***************************************************************************)
HIGHEST == 0
HIGH == 1
NORMAL == 2
LOW == 3
LOWEST == 4

(***************************************************************************)
(* The segment trie.                                                       *)
(***************************************************************************)
Modes == {"handler", "prefix", "postfix", "monitor", "websocket"}

NewRouteLevel ==
  [handlers |-> <<>>, staticRoutes |-> <<>>, dynamicRoutes |-> <<>>, catchAllRoutes |-> <<>>]

EmptyRoots == [mode \in Modes |-> <<>>]

\* Record<string, string> of route parameters: a function on the names.
NoParameters == <<>>

SetParameter(parameters, name, value) ==
  [n \in (DOMAIN parameters) \cup {name} |-> IF n = name THEN value ELSE parameters[n]]

special == {"$", "-", "_", ".", "+", "!", " ", "*", "'", "(", ")", ","}

AlphaNum ==
  {"a", "b", "c", "d", "e", "f", "g", "h", "i", "j", "k", "l", "m",
   "n", "o", "p", "q", "r", "s", "t", "u", "v", "w", "x", "y", "z",
   "A", "B", "C", "D", "E", "F", "G", "H", "I", "J", "K", "L", "M",
   "N", "O", "P", "Q", "R", "S", "T", "U", "V", "W", "X", "Y", "Z",
   "0", "1", "2", "3", "4", "5", "6", "7", "8", "9"}

(***************************************************************************)
(* The matcher compiled for a dynamic segment.  A pattern is the list of   *)
(* the pieces between '^' and '$': a literal character, a group of any     *)
(* characters but c (GroupNot), or a group of any characters (GroupAny).   *)
(***************************************************************************)
Lit(c) == [k |-> "lit", c |-> c]
GroupNot(c) == [k |-> "not", c |-> c]
GroupAny == [k |-> "any", c |-> ""]

RECURSIVE CompileChars(_, _, _, _, _, _)
\* The loop over the characters of a dynamic segment; inWord tells whether
\* `word` is an array (a parameter name is being read) or undefined.
CompileChars(part, i, mapping, match, inWord, word) ==
  IF i > Len(part)
  THEN IF inWord
       THEN [err |-> "", match |-> Append(match, GroupAny), mapping |-> Append(mapping, word)]
       ELSE [err |-> "", match |-> match, mapping |-> mapping]
  ELSE LET char == part[i] IN
       IF char \in special
       THEN IF inWord
            THEN CompileChars(part, i + 1, Append(mapping, word),
                              match \o <<GroupNot(char), Lit(char)>>, FALSE, <<>>)
            ELSE CompileChars(part, i + 1, mapping, Append(match, Lit(char)), FALSE, <<>>)
       ELSE IF char = ":"
       THEN IF inWord
            THEN [err |-> "Invalid URL parameter", match |-> match, mapping |-> mapping]
            ELSE CompileChars(part, i + 1, mapping, match, TRUE, <<>>)
       ELSE IF char \in AlphaNum
       THEN IF inWord
            THEN CompileChars(part, i + 1, mapping, match, TRUE, Append(word, char))
            ELSE CompileChars(part, i + 1, mapping, Append(match, Lit(char)), FALSE, <<>>)
       ELSE [err |-> "Invalid character in URL", match |-> match, mapping |-> mapping]

\* A compilation that reports no error.
CompileDynamicUnchecked(part) ==
  [CompileChars(part, 1, <<>>, <<>>, FALSE, <<>>) EXCEPT !.err = ""]

CompileDynamic(part) == CompileChars(part, 1, <<>>, <<>>, FALSE, <<>>)

RECURSIVE RegExpMatch(_, _, _, _, _)
RECURSIVE RegExpGroup(_, _, _, _, _, _)
\* Backtracking match of pattern[ti..] against str[si..], anchored at both
\* ends; groups are the captures made so far.
RegExpMatch(pattern, ti, str, si, groups) ==
  IF ti > Len(pattern)
  THEN [matched |-> si > Len(str), groups |-> groups]
  ELSE LET tok == pattern[ti] IN
       IF tok.k = "lit"
       THEN IF si <= Len(str) /\ str[si] = tok.c
            THEN RegExpMatch(pattern, ti + 1, str, si + 1, groups)
            ELSE [matched |-> FALSE, groups |-> groups]
       ELSE LET Allowed(j) == tok.k = "any" \/ str[j] # tok.c
                run == CHOOSE n \in 0..(Len(str) - si + 1) :
                         /\ \A j \in si..(si + n - 1) : Allowed(j)
                         /\ (si + n > Len(str) \/ ~Allowed(si + n))
            IN RegExpGroup(pattern, ti, str, si, groups, run)

\* A greedy group: the longest run first, then shorter ones.
RegExpGroup(pattern, ti, str, si, groups, n) ==
  LET try == RegExpMatch(pattern, ti + 1, str, si + n,
                         Append(groups, SubSeq(str, si, si + n - 1)))
  IN IF try.matched THEN try
     ELSE IF n = 0 THEN [matched |-> FALSE, groups |-> groups]
     ELSE RegExpGroup(pattern, ti, str, si, groups, n - 1)

\* match.exec(part)
RegExpExec(pattern, str) == RegExpMatch(pattern, 1, str, 1, <<>>)

RECURSIVE MapGroups(_, _, _, _)
\* for (i < mapping.length) newParameters[mapping[i]] = res[i + 1]
MapGroups(parameters, mapping, groups, i) ==
  IF i > Len(mapping) THEN parameters
  ELSE MapGroups(IF i <= Len(groups)
                 THEN SetParameter(parameters, mapping[i], groups[i])
                 ELSE parameters,
                 mapping, groups, i + 1)

HandlerResultOf(h, parameters) ==
  [handler |-> h.callback, parameters |-> parameters, priority |-> h.priority]

\* Names that every object literal inherits from Object.prototype; the map
\* `staticRoutes = {}` of a RouteLevel is an object literal.
ObjectPrototype == {<<"c", "o", "n", "s", "t", "r", "u", "c", "t", "o", "r">>}

\* part in obj : true of own and of inherited property names.
PartIn(obj, part) == part \in ObjectPrototype \/ ObjHas(obj, part)

\* The lookup did not return: it threw a TypeError, because the value found
\* under an inherited name is not a RouteLevel (its handlers and its
\* staticRoutes are undefined).
TypeErrorThrown ==
  <<[handler |-> "TypeError", parameters |-> NoParameters, priority |-> 0]>>

IsThrown(result) == Len(result) = 1 /\ result[1].handler = "TypeError"

RECURSIVE findHandlers(_, _, _, _, _, _)
RECURSIVE findDynamicRoutes(_, _, _, _, _, _, _)
RECURSIVE findCatchAllRoutes(_, _, _, _, _, _, _)

\* A lookup that tries the static child after the dynamic children and the
\* catch-all branches.
findHandlersStaticLast(path, depth, level, result, parameters, multi) ==
  LET acc == IF multi
             THEN result \o [i \in 1..Len(level.handlers) |->
                               HandlerResultOf(level.handlers[i], parameters)]
             ELSE result
  IN IF depth >= Len(path)
     THEN IF ~multi /\ Len(level.handlers) > 0
          THEN Append(acc, HandlerResultOf(level.handlers[1], parameters))
          ELSE acc
     ELSE LET part == path[depth + 1]
              others == findDynamicRoutes(path, depth, level, acc, parameters, multi, 1)
          IN IF IsThrown(others) \/ (Len(others) > 0 /\ ~multi)
             THEN others
             ELSE IF ~PartIn(level.staticRoutes, part)
             THEN others
             ELSE IF ObjHas(level.staticRoutes, part)
             THEN findHandlers(path, depth + 1, ObjGet(level.staticRoutes, part),
                               others, parameters, multi)
             ELSE TypeErrorThrown

\* A catch-all loop that lets the parameter capture no segment at all.
findCatchAllRoutesEmptyCapture(path, depth, level, result, parameters, multi, k) ==
  IF k > Len(level.catchAllRoutes)
  THEN result
  ELSE LET catchAll == level.catchAllRoutes[k]
           remaining == Len(path) - depth
           suffixLen == Len(catchAll.suffix)
           suffixStart == Len(path) - suffixLen
           matchesSuffix ==
             \A i \in 0..(suffixLen - 1) : path[suffixStart + i + 1] = catchAll.suffix[i + 1]
           captured == SubSeq(path, depth + 1, Len(path) - suffixLen)
           skip == findCatchAllRoutes(path, depth, level, result, parameters, multi, k + 1)
       IN IF remaining < suffixLen THEN skip
          ELSE IF suffixLen > 0 /\ ~matchesSuffix THEN skip
          ELSE LET newParameters ==
                     SetParameter(parameters, catchAll.paramName, Join(captured, "/"))
                   found == findHandlers(path, Len(path), catchAll.level, result,
                                         newParameters, multi)
               IN IF IsThrown(found) \/ (Len(found) > 0 /\ ~multi)
                  THEN found
                  ELSE findCatchAllRoutes(path, depth, level, found, parameters, multi, k + 1)

\* if (result.length > 0 && !multi) return result; a lookup that threw
\* does not go on either.
Halts(found, multi) == IsThrown(found) \/ (Len(found) > 0 /\ ~multi)

\* What follows the static child: its result when it stops the search,
\* the dynamic children otherwise.
afterStaticRoute(path, depth, level, isStatic, afterStatic, parameters, multi) ==
  IF IsThrown(afterStatic) \/ (isStatic /\ Len(afterStatic) > 0 /\ ~multi)
  THEN afterStatic
  ELSE findDynamicRoutes(path, depth, level, afterStatic, parameters, multi, 1)

\* What follows dynamic child k: its result when it stops the search, the
\* next dynamic child otherwise.
afterDynamicRoute(path, depth, level, found, parameters, multi, k) ==
  IF Halts(found, multi)
  THEN found
  ELSE findDynamicRoutes(path, depth, level, found, parameters, multi, k + 1)

\* What follows catch-all branch k: its result when it stops the search, the
\* next branch otherwise.
afterCatchAllRoute(path, depth, level, found, parameters, multi, k) ==
  IF Halts(found, multi)
  THEN found
  ELSE findCatchAllRoutes(path, depth, level, found, parameters, multi, k + 1)

\* The static child of `level` for `part`: the level below an own property,
\* a TypeError for an inherited one.
staticRoute(path, depth, staticRoutes, part, acc, parameters, multi) ==
  IF ~PartIn(staticRoutes, part) THEN acc
  ELSE IF ObjHas(staticRoutes, part)
  THEN findHandlers(path, depth + 1, ObjGet(staticRoutes, part), acc, parameters, multi)
  ELSE TypeErrorThrown

\* The handlers of the level reached, added to the result of a collecting
\* lookup.
collectHandlers(handlers, result, parameters, multi) ==
  IF multi
  THEN result \o [i \in 1..Len(handlers) |-> HandlerResultOf(handlers[i], parameters)]
  ELSE result

\* depth counts the segments already consumed (path[depth + 1] is next).
findHandlers(path, depth, level, result, parameters, multi) ==
  IF depth >= Len(path)
  THEN IF ~multi /\ Len(level.handlers) > 0
       THEN Append(result, HandlerResultOf(level.handlers[1], parameters))
       ELSE collectHandlers(level.handlers, result, parameters, multi)
  ELSE afterStaticRoute(path, depth, level,
                        PartIn(level.staticRoutes, path[depth + 1]),
                        staticRoute(path, depth, level.staticRoutes, path[depth + 1],
                                    collectHandlers(level.handlers, result, parameters, multi),
                                    parameters, multi),
                        parameters, multi)

\* Dynamic child k when its expression has matched the segment.
dynamicRoute(path, depth, level, result, parameters, multi, k, route, res) ==
  IF res.matched
  THEN afterDynamicRoute(path, depth, level,
                         findHandlers(path, depth + 1, route.sub, result,
                                      MapGroups(parameters, route.mapping, res.groups, 1),
                                      multi),
                         parameters, multi, k)
  ELSE findDynamicRoutes(path, depth, level, result, parameters, multi, k + 1)

\* The loop over Object.values(level.dynamicRoutes), from entry k on.
findDynamicRoutes(path, depth, level, result, parameters, multi, k) ==
  IF k > Len(level.dynamicRoutes)
  THEN findCatchAllRoutes(path, depth, level, result, parameters, multi, 1)
  ELSE dynamicRoute(path, depth, level, result, parameters, multi, k,
                    level.dynamicRoutes[k].val,
                    RegExpExec(level.dynamicRoutes[k].val.match, path[depth + 1]))

\* Catch-all branch k: skipped when too few segments remain, when its suffix
\* does not end the path or when nothing is left to capture.
catchAllRoute(path, depth, level, result, parameters, multi, k, catchAll, suffixLen) ==
  IF \/ Len(path) - depth < 1 + suffixLen
     \/ suffixLen > 0 /\ ~(\A i \in 0..(suffixLen - 1) :
                            path[Len(path) - suffixLen + i + 1] = catchAll.suffix[i + 1])
     \/ Len(SubSeq(path, depth + 1, Len(path) - suffixLen)) < 1
  THEN findCatchAllRoutes(path, depth, level, result, parameters, multi, k + 1)
  ELSE afterCatchAllRoute(path, depth, level,
                          findHandlers(path, Len(path), catchAll.level, result,
                                       SetParameter(parameters, catchAll.paramName,
                                                    Join(SubSeq(path, depth + 1,
                                                                Len(path) - suffixLen), "/")),
                                       multi),
                          parameters, multi, k)

\* The loop over level.catchAllRoutes, from branch k on.
findCatchAllRoutes(path, depth, level, result, parameters, multi, k) ==
  IF k > Len(level.catchAllRoutes)
  THEN result
  ELSE catchAllRoute(path, depth, level, result, parameters, multi, k,
                     level.catchAllRoutes[k], Len(level.catchAllRoutes[k].suffix))

\* A lookup that searches the root `any` only when the root of the method
\* has yielded nothing, also when it collects.
getHandlerAnyAsFallback(method, path, source, multi) ==
  LET hasMethod == ObjHas(source, method)
      hasAny == ObjHas(source, "any")
      r1 == IF hasMethod
            THEN findHandlers(path, 0, ObjGet(source, method), <<>>, NoParameters, multi)
            ELSE <<>>
      r2 == IF hasAny /\ Len(r1) = 0
            THEN findHandlers(path, 0, ObjGet(source, "any"), r1, NoParameters, multi)
            ELSE r1
  IN IF IsThrown(r2)
     THEN [isArray |-> FALSE, found |-> FALSE, list |-> <<>>, thrown |-> TRUE]
     ELSE IF Len(r2) > 0 /\ ~multi
     THEN [isArray |-> FALSE, found |-> TRUE, list |-> <<r2[1]>>, thrown |-> FALSE]
     ELSE IF multi
     THEN [isArray |-> TRUE, found |-> TRUE, list |-> r2, thrown |-> FALSE]
     ELSE [isArray |-> FALSE, found |-> FALSE, list |-> <<>>, thrown |-> FALSE]

\* The lookup result: `list` holds the single HandlerResult (multi = FALSE,
\* found = TRUE), the array (multi = TRUE), or nothing (undefined); thrown
\* tells that the lookup threw instead of returning.
getHandler(method, path, source, multi) ==
  LET hasMethod == ObjHas(source, method)
      hasAny == ObjHas(source, "any")
      r1 == IF hasMethod
            THEN findHandlers(path, 0, ObjGet(source, method), <<>>, NoParameters, multi)
            ELSE <<>>
      r2 == IF hasAny
            THEN findHandlers(path, 0, ObjGet(source, "any"), r1, NoParameters, multi)
            ELSE r1
  IN IF IsThrown(r1) \/ (~(hasMethod /\ Len(r1) > 0 /\ ~multi) /\ IsThrown(r2))
     THEN [isArray |-> FALSE, found |-> FALSE, list |-> <<>>, thrown |-> TRUE]
     ELSE IF hasMethod /\ Len(r1) > 0 /\ ~multi
     THEN [isArray |-> FALSE, found |-> TRUE, list |-> <<r1[1]>>, thrown |-> FALSE]
     ELSE IF hasAny /\ Len(r2) > 0 /\ ~multi
     THEN [isArray |-> FALSE, found |-> TRUE, list |-> <<r2[1]>>, thrown |-> FALSE]
     ELSE IF multi
     THEN [isArray |-> TRUE, found |-> TRUE, list |-> r2, thrown |-> FALSE]
     ELSE [isArray |-> FALSE, found |-> FALSE, list |-> <<>>, thrown |-> FALSE]

\* A multi lookup that searches the root `get` for a HEAD request.
getMultiHandlersHeadAsGet(method, path, source) ==
  LET handlers == getHandler(IF method = "head" THEN "get" ELSE method, path, source, TRUE)
  IN IF handlers.thrown THEN TypeErrorThrown
     ELSE IF handlers.isArray THEN handlers.list ELSE <<>>

getMultiHandlers(method, path, source) ==
  LET handlers == getHandler(method, path, source, TRUE)
  IN IF handlers.thrown THEN TypeErrorThrown
     ELSE IF handlers.isArray THEN handlers.list ELSE <<>>

(***************************************************************************)
(* Registration.  An optional argument is <<>> (undefined) or <<value>>.   *)
(***************************************************************************)
Opt(arg, default) == IF arg = <<>> THEN default ELSE arg[1]

\* method?.toLowerCase() || 'any'
MethodKey(method) ==
  IF method = <<>> \/ ToLowerCase(method[1]) = "" THEN "any" ELSE ToLowerCase(method[1])

RECURSIVE registerParts(_, _, _, _)
\* The loop over parts, from parts[i] on, with `level` the node reached;
\* yields the node as the loop leaves it and the message of the Error
\* thrown ("" when none is).
registerParts(level, parts, i, entry) ==
  IF i > Len(parts)
  THEN [level |-> [level EXCEPT !.handlers = Append(@, entry)], err |-> ""]
  ELSE LET part == parts[i] IN
       IF StartsWith(part, <<":", ":">>)
       THEN LET paramName == SubSeq(part, 3, Len(part))
                suffix == SubSeq(parts, i + 1, Len(parts))
                suffixKey == Join(suffix, "/")
                Same(route) ==
                  route.paramName = paramName /\ Join(route.suffix, "/") = suffixKey
                known == \E k \in 1..Len(level.catchAllRoutes) : Same(level.catchAllRoutes[k])
                routes ==
                  IF known
                  THEN level.catchAllRoutes
                  ELSE Append(level.catchAllRoutes,
                              [paramName |-> paramName, suffix |-> suffix, level |-> NewRouteLevel])
                idx == CHOOSE k \in 1..Len(routes) :
                         /\ Same(routes[k])
                         /\ \A j \in 1..(k - 1) : ~Same(routes[j])
            IN IF paramName = <<>>
               THEN [level |-> level, err |-> "Catch-all parameter must have a name"]
               ELSE IF \E k \in 1..Len(suffix) : HasColon(suffix[k])
               THEN [level |-> level, err |-> "Dynamic segments after catch-all are not supported"]
               ELSE [level |-> [level EXCEPT !.catchAllRoutes =
                                  [routes EXCEPT ![idx].level.handlers = Append(@, entry)]],
                     err |-> ""]
       ELSE IF HasColon(part)
       THEN LET known == ObjHas(level.dynamicRoutes, part)
                compiled == CompileDynamic(part)
                routes ==
                  IF known
                  THEN level.dynamicRoutes
                  ELSE ObjSet(level.dynamicRoutes, part,
                              [match |-> compiled.match, sub |-> NewRouteLevel,
                               mapping |-> compiled.mapping])
                idx == ObjIdx(routes, part)
                below == registerParts(routes[idx].val.sub, parts, i + 1, entry)
            IN IF ~known /\ compiled.err # ""
               THEN [level |-> level, err |-> compiled.err]
               ELSE [level |-> [level EXCEPT !.dynamicRoutes =
                                  [routes EXCEPT ![idx].val.sub = below.level]],
                     err |-> below.err]
       ELSE IF PartIn(level.staticRoutes, part) /\ ~ObjHas(level.staticRoutes, part)
       THEN [level |-> level, err |-> "TypeError"]
       ELSE LET routes ==
                  IF PartIn(level.staticRoutes, part)
                  THEN level.staticRoutes
                  ELSE ObjSet(level.staticRoutes, part, NewRouteLevel)
                below == registerParts(ObjGet(routes, part), parts, i + 1, entry)
            IN [level |-> [level EXCEPT !.staticRoutes = ObjSet(routes, part, below.level)],
                err |-> below.err]

\* The routing table after the call, and the message of the Error it threw.
registerHandler(table, id, mode, method, location, handler, priority) ==
  LET parts == SplitPath(location)
      source == table[mode]
      key == MethodKey(method)
      level == IF ObjHas(source, key) THEN ObjGet(source, key) ELSE NewRouteLevel
      done == registerParts(level, parts, 1,
                            [id |-> id, callback |-> handler, priority |-> Opt(priority, NORMAL)])
  IN [roots |-> [table EXCEPT ![mode] = ObjSet(source, key, done.level)], err |-> done.err]

(***************************************************************************)
(* Removal.  Each operator yields whether an entry was removed and the     *)
(* object as the call leaves it.                                           *)
(***************************************************************************)
\* The order in which Object.values(roots) enumerates the modes.
ModeOrder == <<"handler", "prefix", "postfix", "monitor", "websocket">>

RECURSIVE removeHandler(_, _)
RECURSIVE removeFromLevels(_, _, _)
RECURSIVE removeFromLevel(_, _)
RECURSIVE removeCatchAllRoutes(_, _, _)

\* A removal that does not look below the catch-all branches.
removeCatchAllRoutesSkipped(id, level, k) == [removed |-> FALSE, level |-> level]

\* The loop over level.catchAllRoutes, from branch k on.
removeCatchAllRoutes(id, level, k) ==
  IF k > Len(level.catchAllRoutes)
  THEN [removed |-> FALSE, level |-> level]
  ELSE LET below == removeHandler(id, <<[key |-> "_", val |-> level.catchAllRoutes[k].level]>>)
       IN IF below.removed
          THEN [removed |-> TRUE,
                level |-> [level EXCEPT !.catchAllRoutes[k].level = below.source[1].val]]
          ELSE removeCatchAllRoutes(id, level, k + 1)

\* Object.keys(level.dynamicRoutes).reduce(...): the subtrees of the dynamic
\* children under their keys.
dynamicSubs(dynamicRoutes) ==
  [i \in 1..Len(dynamicRoutes) |->
     [key |-> dynamicRoutes[i].key, val |-> dynamicRoutes[i].val.sub]]

\* A removal that drops the first handler of the node that holds the id.
removeFromLevelFirst(id, level) ==
  LET held == \E i \in 1..Len(level.handlers) : level.handlers[i].id = id
      static == removeHandler(id, level.staticRoutes)
      dynamic == removeHandler(id, dynamicSubs(level.dynamicRoutes))
  IN IF held
     THEN [removed |-> TRUE, level |-> [level EXCEPT !.handlers = Tail(@)]]
     ELSE IF static.removed
     THEN [removed |-> TRUE, level |-> [level EXCEPT !.staticRoutes = static.source]]
     ELSE IF dynamic.removed
     THEN [removed |-> TRUE,
           level |-> [level EXCEPT !.dynamicRoutes =
                        [i \in 1..Len(@) |-> [@[i] EXCEPT !.val.sub = dynamic.source[i].val]]]]
     ELSE removeCatchAllRoutes(id, level, 1)

\* The body of the loop of removeHandler for one level.
removeFromLevel(id, level) ==
  LET kept == SelectSeq(level.handlers, LAMBDA h : h.id # id)
      static == removeHandler(id, level.staticRoutes)
      dynamic == removeHandler(id, dynamicSubs(level.dynamicRoutes))
  IN IF Len(level.handlers) # Len(kept)
     THEN [removed |-> TRUE, level |-> [level EXCEPT !.handlers = kept]]
     ELSE IF static.removed
     THEN [removed |-> TRUE, level |-> [level EXCEPT !.staticRoutes = static.source]]
     ELSE IF dynamic.removed
     THEN [removed |-> TRUE,
           level |-> [level EXCEPT !.dynamicRoutes =
                        [i \in 1..Len(@) |-> [@[i] EXCEPT !.val.sub = dynamic.source[i].val]]]]
     ELSE removeCatchAllRoutes(id, level, 1)

\* The loop over Object.values(source), from entry k on.
removeFromLevels(id, source, k) ==
  IF k > Len(source)
  THEN [removed |-> FALSE, source |-> source]
  ELSE LET done == removeFromLevel(id, source[k].val)
       IN IF done.removed
          THEN [removed |-> TRUE, source |-> [source EXCEPT ![k].val = done.level]]
          ELSE removeFromLevels(id, source, k + 1)

removeHandler(id, source) == removeFromLevels(id, source, 1)

RECURSIVE unregisterFrom(_, _, _)
\* The loop over Object.values(roots), from mode k on.
unregisterFrom(table, id, k) ==
  IF k > Len(ModeOrder)
  THEN table
  ELSE LET done == removeHandler(id, table[ModeOrder[k]])
       IN IF done.removed
          THEN [table EXCEPT ![ModeOrder[k]] = done.source]
          ELSE unregisterFrom(table, id, k + 1)

\* The routing table after the call.
unregisterHandler(table, id) == unregisterFrom(table, id, 1)

(***************************************************************************)
(* JavaScript values that handlers return or throw.                        *)
(***************************************************************************)
Undefined == [t |-> "undefined"]
Null == [t |-> "null"]
Str(s) == [t |-> "string", str |-> s]
Obj(entries) == [t |-> "object", entries |-> entries]
Err(message) == [t |-> "Error", message |-> message]
Ref(r) == [t |-> "HTTPResult", ref |-> r]

\* if (value)
Truthy(v) ==
  CASE v.t = "undefined" -> FALSE
    [] v.t = "null" -> FALSE
    [] v.t = "string" -> v.str # ""
    [] v.t = "boolean" -> v.bool
    [] v.t = "number" -> v.num # 0
    [] v.t = "NaN" -> FALSE
    [] OTHER -> TRUE

RECURSIVE StringifyEntries(_, _)
StringifyEntries(entries, i) ==
  IF i > Len(entries) THEN ""
  ELSE (IF i > 1 THEN "," ELSE "")
       \o "\"" \o entries[i].key \o "\":\"" \o entries[i].val \o "\""
       \o StringifyEntries(entries, i + 1)

\* JSON.stringify(body) for the bodies that are neither undefined nor a
\* string; an Error has no enumerable property of its own.
JSONStringify(v) ==
  CASE v.t = "null" -> "null"
    [] v.t = "object" -> "{" \o StringifyEntries(v.entries, 1) \o "}"
    [] OTHER -> "{}"

(***************************************************************************)
(* HTTPResult.  The objects live in a heap (a sequence; a reference is an  *)
(* index), since withHeaders changes and returns the object it is given.   *)
(***************************************************************************)
NoHeaders == <<>>

BlankResult ==
  [status |-> 200, body |-> "", contentType |-> "text/plain", stream |-> FALSE,
   headers |-> NoHeaders]

setBody(res, body, type) ==
  IF body.t = "undefined" \/ body.t = "string"
  THEN [res EXCEPT !.body = IF body.t = "string" THEN body.str ELSE "",
                   !.contentType = Opt(type, "text/plain")]
  ELSE [res EXCEPT !.body = JSONStringify(body),
                   !.contentType = Opt(type, "application/json")]

setStatus(res, status) == [res EXCEPT !.status = status]

\* getWriteStream(type = 'text/plain', status = 200): the response is in
\* stream mode from now on; its stream is made once.
getWriteStream(res, type, status) ==
  [res EXCEPT !.stream = TRUE,
              !.contentType = Opt(type, "text/plain"),
              !.status = Opt(status, 200),
              !.body = ""]

addHeader(res, name, value) ==
  [res EXCEPT !.headers =
     [n \in (DOMAIN res.headers) \cup {name} |-> IF n = name THEN value ELSE res.headers[n]]]

removeHeader(res, name) ==
  [res EXCEPT !.headers = [n \in (DOMAIN res.headers) \ {name} |-> res.headers[n]]]

\* new HTTPResult(status, body, type)
NewHTTPResult(status, body, type) == setStatus(setBody(BlankResult, body, type), status)

\* for (const [key, val] of Object.entries(headers)) result.addHeader(key, val)
AddHeaders(res, headers) ==
  [res EXCEPT !.headers =
     [n \in (DOMAIN res.headers) \cup (DOMAIN headers) |->
        IF n \in DOMAIN headers THEN headers[n] ELSE res.headers[n]]]

\* A withHeaders that leaves the headers it is given out.
withHeadersUnmerged(objects, res, headers, defaultStatus) ==
  IF res.t = "HTTPResult"
  THEN [heap |-> objects, ref |-> res.ref]
  ELSE [heap |-> Append(objects, NewHTTPResult(defaultStatus, res, <<>>)),
        ref |-> Len(objects) + 1]

\* A withHeaders that wraps whatever it is given in a new HTTPResult.
withHeadersFresh(objects, res, headers, defaultStatus) ==
  [heap |-> Append(objects, AddHeaders(NewHTTPResult(defaultStatus, res, <<>>), headers)),
   ref |-> Len(objects) + 1]

\* A withHeaders that keeps the value the result already has for a name.
withHeadersResultWins(objects, res, headers, defaultStatus) ==
  IF res.t = "HTTPResult"
  THEN [heap |-> [objects EXCEPT ![res.ref] = AddHeaders([@ EXCEPT !.headers = headers], @.headers)],
        ref |-> res.ref]
  ELSE [heap |-> Append(objects, AddHeaders(NewHTTPResult(defaultStatus, res, <<>>), headers)),
        ref |-> Len(objects) + 1]

\* HTTPResult.withHeaders(res, headers, defaultStatus): the heap after the
\* call and the reference returned.
withHeaders(objects, res, headers, defaultStatus) ==
  IF res.t = "HTTPResult"
  THEN [heap |-> [objects EXCEPT ![res.ref] = AddHeaders(@, headers)], ref |-> res.ref]
  ELSE [heap |-> Append(objects, AddHeaders(NewHTTPResult(defaultStatus, res, <<>>), headers)),
        ref |-> Len(objects) + 1]

\* The thrown value is taken whole, whatever message it has.
extractErrorWhole(error) == error

extractError(error) ==
  IF error.t = "Error"
  THEN IF error.message.t \in {"undefined", "null"} THEN error ELSE error.message
  ELSE error

\* The monitors are given the response of the context itself.
cloneResponseAliased(objects, response) == [heap |-> objects, ref |-> response]

\* The heap after the call and the reference of the snapshot.
cloneResponse(objects, response) ==
  LET src == objects[response]
      snapshot == NewHTTPResult(src.status, Str(src.body), <<src.contentType>>)
  IN [heap |-> Append(objects, AddHeaders(snapshot, src.headers)), ref |-> Len(objects) + 1]

\* handlers.sort((a, b) => a.priority - b.priority): Array.prototype.sort
\* is stable.
RECURSIVE InsertByPriority(_, _)
InsertByPriority(sorted, h) ==
  IF sorted = <<>> THEN <<h>>
  ELSE IF sorted[Len(sorted)].priority - h.priority <= 0 THEN Append(sorted, h)
  ELSE Append(InsertByPriority(SubSeq(sorted, 1, Len(sorted) - 1), h), sorted[Len(sorted)])

RECURSIVE SortFrom(_, _, _)
SortFrom(list, i, sorted) ==
  IF i > Len(list) THEN sorted
  ELSE SortFrom(list, i + 1, InsertByPriority(sorted, list[i]))

\* The handlers left in the order of the lookup.
SortByPriorityMissing(list) == list

\* A sort by priority that does not keep the order of equal elements.
SortByPriorityUnstable(list) ==
  SortFrom([i \in 1..Len(list) |-> list[Len(list) + 1 - i]], 1, <<>>)

SortByPriority(list) == SortFrom(list, 1, <<>>)

\* What goes on the wire: res.writeHead(status, {...headers, 'Content-Type'})
\* followed by end(), end(body) or stream.pipe(res).
WireHeaders(res) ==
  [n \in (DOMAIN res.headers) \cup {"Content-Type"} |->
     IF n = "Content-Type" THEN res.contentType ELSE res.headers[n]]

sendHeadResponse(res) ==
  [status |-> res.status, headers |-> WireHeaders(res), body |-> "", sent |-> "head"]

sendResponse(res) ==
  [status |-> res.status, headers |-> WireHeaders(res),
   body |-> IF res.stream THEN "" ELSE res.body,
   sent |-> IF res.stream THEN "pipe" ELSE "end"]

\* The body is written whatever the method of the request.
handleResultWithBody(isHead, response) == sendResponse(response)

handleResult(isHead, response) ==
  IF isHead THEN sendHeadResponse(response) ELSE sendResponse(response)

(***************************************************************************)
(* The routes a module may declare, the requests a client may send and     *)
(* what a callback may do when it is invoked.                              *)
(***************************************************************************)
LocRoot == <<"/">>
LocA == <<"/", "a">>
LocB == <<"/", "b">>
LocConstructor == <<"/", "c", "o", "n", "s", "t", "r", "u", "c", "t", "o", "r">>

LocAB == <<"/", "a", "/", "b">>

Decl(id, mode, method, location, priority) ==
  [id |-> id, mode |-> mode, method |-> method, location |-> location, priority |-> priority]

\* The routes of the module whose requests are followed in full.
RouteDecls ==
  { Decl("main", "handler", <<"get">>, LocA, <<>>),
    Decl("preA", "prefix", <<"get">>, LocA, <<>>),
    Decl("cors", "prefix", <<"any">>, LocRoot, <<HIGHEST>>),
    Decl("postA", "postfix", <<"GET">>, LocA, <<>>),
    Decl("monA", "monitor", <<"get">>, LocA, <<LOW>>),
    Decl("monAny", "monitor", <<"any">>, LocRoot, <<>>) }

\* The routes of the module whose HEAD requests are followed: main handlers
\* of one path under the roots `get`, `head` and `any`.
HeadDecls ==
  { Decl("main", "handler", <<"get">>, LocA, <<>>),
    Decl("mainHead", "handler", <<"head">>, LocA, <<>>),
    Decl("mainAny", "handler", <<"any">>, LocA, <<>>),
    Decl("cors", "prefix", <<"any">>, LocRoot, <<HIGHEST>>),
    Decl("postAny", "postfix", <<>>, LocRoot, <<>>),
    Decl("monA", "monitor", <<"get">>, LocA, <<LOW>>),
    Decl("monAny", "monitor", <<"any">>, LocRoot, <<>>) }

HeadMethods == {<<"GET">>, <<"HEAD">>}

HeadUrls == {LocA, LocB}

\* Request paths and patterns with dynamic and catch-all segments.
LocEnd == <<"/", "e", "n", "d">>
LocAEnd == <<"/", "a", "/", "e", "n", "d">>
LocCEnd == <<"/", "c", "/", "e", "n", "d">>
LocABCEnd == <<"/", "a", "/", "b", "/", "c", "/", "e", "n", "d">>
LocConstructorEnd == LocConstructor \o LocEnd
PatIdEnd == <<"/", ":", "i", "d", "/", "e", "n", "d">>
PatNameEnd == <<"/", ":", "n", "a", "m", "e", "/", "e", "n", "d">>
PatRest == <<"/", ":", ":", "r", "e", "s", "t">>
PatXEnd == <<"/", ":", ":", "x", "/", "e", "n", "d">>
PatId == <<"/", ":", "i", "d">>
PatAWho == <<"/", "a", "/", ":", "w", "h", "o">>

\* The routes of the module whose lookups are followed: a static, two
\* dynamic and two catch-all patterns that match the same paths, under
\* one method root, and the static pattern under the root `any`.
PatternDecls ==
  { Decl("static", "handler", <<"get">>, LocAEnd, <<>>),
    Decl("staticAny", "handler", <<"any">>, LocAEnd, <<>>),
    Decl("byId", "handler", <<"get">>, PatIdEnd, <<>>),
    Decl("byName", "handler", <<"get">>, PatNameEnd, <<>>),
    Decl("rest", "handler", <<"get">>, PatRest, <<>>),
    Decl("upToEnd", "handler", <<"get">>, PatXEnd, <<>>),
    Decl("cors", "prefix", <<"any">>, LocRoot, <<HIGHEST>>),
    Decl("monAny", "monitor", <<"any">>, LocRoot, <<>>) }

PatternUrls == {LocEnd, LocAEnd, LocCEnd, LocABCEnd, LocConstructorEnd}

\* Handlers of the four phases whose patterns capture parameters under
\* different names.
ParameterDecls ==
  { Decl("byName", "handler", <<"get">>, PatNameEnd, <<>>),
    Decl("upToEnd", "handler", <<"get">>, PatXEnd, <<>>),
    Decl("cors", "prefix", <<"any">>, LocRoot, <<HIGHEST>>),
    Decl("preId", "prefix", <<"get">>, PatId, <<>>),
    Decl("postRest", "postfix", <<"GET">>, PatRest, <<>>),
    Decl("monWho", "monitor", <<"get">>, PatAWho, <<LOW>>),
    Decl("monAny", "monitor", <<"any">>, LocRoot, <<>>) }

ParameterUrls == {LocAEnd, LocCEnd, LocABCEnd}

\* The routes of modules that are loaded and unloaded while requests are
\* being served.
LiveDecls ==
  { Decl("main", "handler", <<"get">>, LocA, <<>>),
    Decl("mainAny", "handler", <<"any">>, LocA, <<>>),
    Decl("preA", "prefix", <<"get">>, LocA, <<>>),
    Decl("postA", "postfix", <<"GET">>, LocA, <<>>),
    Decl("monAny", "monitor", <<"any">>, LocRoot, <<>>) }

\* Patterns that registerHandler refuses.
PatAfterCatchAll == <<"/", "a", "/", ":", ":", "x", "/", ":", "i", "d">>
PatTwoCatchAll == <<"/", ":", ":", "x", "/", ":", ":", "y">>
PatNoName == <<"/", "a", "/", ":", ":">>
PatTwoColons == <<"/", "a", "/", ":", "p", ":", "q">>
PatBadChar == <<"/", ":", "p", "~">>

\* The routes of a module some of whose patterns are malformed.
MalformedDecls ==
  { Decl("afterCatchAll", "handler", <<"get">>, PatAfterCatchAll, <<>>),
    Decl("twoCatchAll", "handler", <<"get">>, PatTwoCatchAll, <<>>),
    Decl("noName", "prefix", <<"get">>, PatNoName, <<>>),
    Decl("twoColons", "handler", <<"get">>, PatTwoColons, <<>>),
    Decl("badChar", "monitor", <<"get">>, PatBadChar, <<>>) }

MixedDecls ==
  MalformedDecls \cup
    { Decl("main", "handler", <<"get">>, LocA, <<>>),
      Decl("cors", "prefix", <<"any">>, LocRoot, <<HIGHEST>>),
      Decl("monAny", "monitor", <<"any">>, LocRoot, <<>>) }

MixedUrls == {LocA, LocB, LocAB}

\* The routes of the module whose order of registration is followed:
\* handlers of one priority on one node, on two nodes of one method root,
\* and on the two method roots.
OrderDecls ==
  { Decl("main", "handler", <<"get">>, LocA, <<>>),
    Decl("preA", "prefix", <<"get">>, LocA, <<>>),
    Decl("preB", "prefix", <<"get">>, LocA, <<>>),
    Decl("preRoot", "prefix", <<"get">>, LocRoot, <<>>),
    Decl("postA", "postfix", <<"GET">>, LocA, <<>>),
    Decl("postAny", "postfix", <<>>, LocRoot, <<>>),
    Decl("monA", "monitor", <<"get">>, LocA, <<LOW>>),
    Decl("monAny", "monitor", <<"any">>, LocRoot, <<>>) }

RequestMethods == {<<>>, <<"GET">>, <<"HEAD">>, <<"OPTIONS">>}

RequestUrls == {LocRoot, LocA, LocB, LocAB, LocConstructor}

Behaviour(effect, outcome, value, status) ==
  [effect |-> effect, outcome |-> outcome, status |-> status, value |-> value]

\* The two behaviours of the modules whose callbacks only return: a
\* callback that returns nothing, and one that returns a string.
ReturnsUndefined == Behaviour("none", "return", "undefined", 0)

ReturnsString == Behaviour("none", "return", "string", 0)

\* Behaviours of the callbacks of prefix, main and postfix handlers.
HandlerBehaviours ==
  { Behaviour("none", "return", "undefined", 0),
    Behaviour("addHeader", "return", "undefined", 0),
    Behaviour("mutate", "return", "empty", 0),
    Behaviour("addHeader", "return", "string", 0),
    Behaviour("none", "return", "object", 0),
    Behaviour("none", "return", "HTTPResult", 201),
    Behaviour("addHeader", "throw", "Error", 0),
    Behaviour("none", "throw", "string", 0),
    Behaviour("none", "throw", "HTTPResult", 400) }

\* Behaviours of the callbacks of monitors.
MonitorBehaviours ==
  { Behaviour("none", "return", "undefined", 0),
    Behaviour("mutate", "return", "string", 0),
    Behaviour("removeHeaders", "throw", "Error", 0) }

HeaderOf(cb) == "x-" \o cb

\* The content type a handler asks its write stream for.
EventStream == "text/event-stream"

\* A header name that a handler sets on the response of the context and
\* that a returned HTTPResult carries too.
SharedHeader == "x-shared"

\* The headers of the HTTPResult that the callback cb returns with headers.
OwnHeaders(cb) == [n \in {SharedHeader, "x-own"} |-> IF n = SharedHeader THEN "result" ELSE cb]

\* What the callback cb does to the response of the context it is given.
ApplyEffect(objects, ref, effect, cb) ==
  CASE effect = "addHeader" ->
         [objects EXCEPT ![ref] = addHeader(@, HeaderOf(cb), "1")]
    [] effect = "mutate" ->
         [objects EXCEPT ![ref] =
            addHeader(setBody(setStatus(@, 201), Str("Mutated"), <<>>), "x-mutated", cb)]
    [] effect = "removeHeaders" ->
         [objects EXCEPT ![ref] = [@ EXCEPT !.headers = NoHeaders]]
    [] effect = "getWriteStream" ->
         [objects EXCEPT ![ref] = getWriteStream(@, <<EventStream>>, <<>>)]
    [] effect = "shareHeader" ->
         [objects EXCEPT ![ref] = addHeader(@, SharedHeader, "context")]
    [] OTHER -> objects

\* The value the callback cb returns or throws, and the heap once it has.
Produce(objects, b, cb) ==
  CASE b.value = "string" -> [heap |-> objects, value |-> Str(cb)]
    [] b.value = "empty" -> [heap |-> objects, value |-> Str("")]
    [] b.value = "object" ->
         [heap |-> objects, value |-> Obj(<<[key |-> "by", val |-> cb]>>)]
    [] b.value = "Error" -> [heap |-> objects, value |-> Err(Str("boom"))]
    [] b.value = "HTTPResult" ->
         [heap |-> Append(objects, NewHTTPResult(b.status, Str(cb), <<>>)),
          value |-> Ref(Len(objects) + 1)]
    [] b.value = "HTTPResultWithHeaders" ->
         [heap |-> Append(objects, AddHeaders(NewHTTPResult(b.status, Str(cb), <<>>), OwnHeaders(cb))),
          value |-> Ref(Len(objects) + 1)]
    [] OTHER -> [heap |-> objects, value |-> Undefined]

RunCallback(objects, ref, cb, b) == Produce(ApplyEffect(objects, ref, b.effect, cb), b, cb)

(***************************************************************************)
(* State.                                                                  *)
(***************************************************************************)
VARIABLES
  roots,             \* the routing table: mode -> method -> RouteLevel
  registeredRoutes,  \* the keys of the Map of the routes registered
  registrationOrder, \* history: the ids in the order of their registration
  registerErrors,    \* history: the registrations that threw, with the message
  pc,                \* where requestListener stands
  method,            \* requestListener: method
  path,              \* requestListener: path
  handler,           \* requestListener: handler (the main-handler lookup)
  handlers,          \* the handlers the running loop has still to invoke
  awaiting,          \* the handler whose result is awaited: <<>> or <<h>>
  requestError,      \* requestListener: requestError
  requestContext,    \* requestListener: requestContext
  monitorContext,    \* executeMonitors: monitorContext
  heap,              \* the HTTPResult objects of the request
  events,            \* history: invocations and settlements, in order
  wire,              \* history: what was written to the raw response
  compute,           \* the calls of computeParameter, each with its history
  controllers,       \* the controller caches, the instances made, the calls
  parked,            \* the other request in progress, while it does not run
  upgrade,           \* upgradeListener: its flags, the connection, the socket
  util               \* history: the last call of an api-util helper, with its outcome

vars ==
  <<roots, registeredRoutes, registrationOrder, registerErrors, pc, method, path, handler, handlers, awaiting,
    requestError, requestContext, monitorContext, heap, events, wire, compute,
    controllers, parked, upgrade, util>>

\* The state of the dispatch of one HTTP request.
request ==
  <<pc, method, path, handler, handlers, awaiting, requestError, requestContext,
    monitorContext, heap, events, wire>>

\* The state that the router and the dispatch of a request leave alone.
aside == <<util, compute, controllers, parked, upgrade>>

table == <<roots, registeredRoutes, registrationOrder, registerErrors>>

\* The state that computeParameter and GetControllerInstance leave alone.
serving == <<table, request, parked, upgrade, util>>

\* No cache on any context, no instance made, no call.
NoControllers == [cache |-> {}, made |-> <<>>, calls |-> <<>>, applies |-> <<>>]

NoLookup == [isArray |-> FALSE, found |-> FALSE, list |-> <<>>, thrown |-> FALSE]

NoContext == [routeParameters |-> NoParameters, response |-> 0, error |-> Undefined]

\* Lines 463-465: the flags of upgradeListener; context.connection is not
\* set and the socket is not destroyed.
NoUpgrade ==
  [hasUpgradedConnection |-> FALSE, mustSendResponse |-> FALSE,
   mustDestroySocket |-> FALSE, connection |-> FALSE, destroyed |-> FALSE]

\* No helper of api-util has been called.
NoCall == [fn |-> ""]

\* The second invocation of requestListener has not begun: its context is
\* known as "ctx2", the one of the invocation that runs as "ctx1".
NoneParked ==
  [context |-> "ctx2",
   state |-> <<"idle", "", <<>>, NoLookup, <<>>, <<>>, Undefined, NoContext, NoContext,
               <<>>, <<>>, <<>>>>]

Idle ==
  /\ pc = "idle"
  /\ method = ""
  /\ path = <<>>
  /\ handler = NoLookup
  /\ handlers = <<>>
  /\ awaiting = <<>>
  /\ requestError = Undefined
  /\ requestContext = NoContext
  /\ monitorContext = NoContext
  /\ heap = <<>>
  /\ events = <<>>
  /\ wire = <<>>

Init ==
  /\ roots = EmptyRoots
  /\ registeredRoutes = {}
  /\ registrationOrder = <<>>
  /\ registerErrors = {}
  /\ Idle
  /\ compute = <<>>
  /\ controllers = NoControllers
  /\ parked = NoneParked
  /\ upgrade = NoUpgrade
  /\ util = NoCall

isHeadRequest == method = "head"

\* A dispatcher that does not wait for the result of the callback.
AwaitedNever == TRUE

\* `await`: the dispatcher goes on only when the awaited result has settled.
Awaited == awaiting = <<>>

Invoked(h, mode) ==
  [e |-> "invoke", cb |-> h.handler, mode |-> mode, b |-> Behaviour("", "", "", 0),
   value |-> Undefined]

\* The callback has settled: what it did, and the value it returned or threw.
Settled(h, mode, b, value) ==
  [e |-> "settle", cb |-> h.handler, mode |-> mode, b |-> b, value |-> value]

(***************************************************************************)
(* routesProxy.register, called while a module loads.                      *)
(***************************************************************************)
RegisterRoute(d) ==
  /\ pc = "idle"
  /\ UNCHANGED aside
  /\ Cardinality(registeredRoutes) < MaxHandlers
  /\ d.id \notin registeredRoutes
  /\ registeredRoutes' = registeredRoutes \cup {d.id}
  /\ LET done == registerHandler(roots, "dev/" \o d.id, d.mode, d.method, d.location,
                                 d.id, d.priority)
     IN /\ roots' = done.roots
        /\ registerErrors' = IF done.err = "" THEN registerErrors
                             ELSE registerErrors \cup {<<d.id, done.err>>}
  /\ UNCHANGED <<pc, method, path, handler, handlers, awaiting, requestError,
                 requestContext, monitorContext, heap, events, wire>>

Register(d) == RegisterRoute(d) /\ UNCHANGED registrationOrder

\* The same call, with the order of the registrations kept.
RegisterInOrder(d) ==
  RegisterRoute(d) /\ registrationOrder' = Append(registrationOrder, d.id)

\* routesProxy.unregister
Unregister(id) ==
  /\ pc = "idle"
  /\ UNCHANGED aside
  /\ registeredRoutes' = registeredRoutes \ {id}
  /\ roots' = unregisterHandler(roots, "dev/" \o id)
  /\ UNCHANGED <<registrationOrder, registerErrors, pc, method, path, handler, handlers,
                 awaiting, requestError, requestContext, monitorContext, heap, events, wire>>

(***************************************************************************)
(* requestListener                                                         *)
(***************************************************************************)
\* The TypeError a lookup throws; its message is the engine's.
LookupError == Err(Str("TypeError"))

\* Lines 387-410 and 430-432: the context, the main-handler lookup, the
\* prefix lookup; a lookup that throws is caught like a handler that throws.
\* routesProxy.register called while the listener is suspended in a request.
RegisterWhileServing(d) ==
  /\ pc \notin {"idle", "sent", "rejected"}
  /\ UNCHANGED aside
  /\ Cardinality(registeredRoutes) < MaxHandlers
  /\ d.id \notin registeredRoutes
  /\ registeredRoutes' = registeredRoutes \cup {d.id}
  /\ LET done == registerHandler(roots, "dev/" \o d.id, d.mode, d.method, d.location,
                                 d.id, d.priority)
     IN /\ roots' = done.roots
        /\ registerErrors' = IF done.err = "" THEN registerErrors
                             ELSE registerErrors \cup {<<d.id, done.err>>}
  /\ UNCHANGED <<registrationOrder, pc, method, path, handler, handlers, awaiting,
                 requestError, requestContext, monitorContext, heap, events, wire>>

\* routesProxy.unregister called while the listener is suspended in a request.
UnregisterWhileServing(id) ==
  /\ pc \notin {"idle", "sent", "rejected"}
  /\ UNCHANGED aside
  /\ id \in registeredRoutes
  /\ registeredRoutes' = registeredRoutes \ {id}
  /\ roots' = unregisterHandler(roots, "dev/" \o id)
  /\ UNCHANGED <<registrationOrder, registerErrors, pc, method, path, handler, handlers,
                 awaiting, requestError, requestContext, monitorContext, heap, events, wire>>

Receive(reqMethod, url) ==
  /\ pc = "idle"
  /\ UNCHANGED aside
  /\ LET p == SplitPath(url)
         m == IF reqMethod = <<>> \/ ToLowerCase(reqMethod[1]) = ""
              THEN "get" ELSE ToLowerCase(reqMethod[1])
         first == getHandler(m, p, roots["handler"], FALSE)
         h == IF ~first.thrown /\ ~first.found /\ m = "head"
              THEN getHandler("get", p, roots["handler"], FALSE)
              ELSE first
         returns == ~h.thrown /\ ~h.found /\ m # "options"
         prefixes == IF h.thrown \/ returns
                     THEN <<>>
                     ELSE getMultiHandlers(m, p, roots["prefix"])
         objects == <<NewHTTPResult(404, Str("Not Found"), <<>>)>>
         context == [routeParameters |-> NoParameters, response |-> 1, error |-> Undefined]
     IN /\ method' = m
        /\ path' = p
        /\ handler' = IF h.thrown THEN NoLookup ELSE h
        /\ IF h.thrown \/ IsThrown(prefixes)
           THEN LET w == withHeaders(objects, extractError(LookupError),
                                     objects[1].headers, 500)
                IN /\ requestError' = LookupError
                   /\ heap' = w.heap
                   /\ requestContext' = [context EXCEPT !.response = w.ref]
                   /\ handlers' = <<>>
                   /\ pc' = "finally"
           ELSE /\ heap' = objects
                /\ requestContext' = context
                /\ UNCHANGED requestError
                /\ IF returns
                   THEN /\ pc' = "finally"
                        /\ handlers' = <<>>
                   ELSE /\ pc' = "prefix"
                        /\ handlers' = SortByPriority(prefixes)
  /\ UNCHANGED <<table, awaiting, monitorContext, events, wire>>

\* A loop that calls the next handler with the route parameters that the
\* context has already.
InvokeWithoutParameters ==
  /\ pc \in {"prefix", "postfix", "monitor"}
  /\ UNCHANGED aside
  /\ Awaited
  /\ handlers # <<>>
  /\ LET h == Head(handlers)
     IN /\ awaiting' = <<h>>
        /\ handlers' = Tail(handlers)
        /\ events' = Append(events, Invoked(h, pc))
  /\ UNCHANGED <<table, pc, method, path, handler, requestError, heap, wire,
                 requestContext, monitorContext>>

\* Lines 357-359 and 376-379: the loop picks the next handler, sets the
\* route parameters and calls it.
Invoke ==
  /\ pc \in {"prefix", "postfix", "monitor"}
  /\ UNCHANGED aside
  /\ Awaited
  /\ handlers # <<>>
  /\ LET h == Head(handlers)
     IN /\ awaiting' = <<h>>
        /\ handlers' = Tail(handlers)
        /\ events' = Append(events, Invoked(h, pc))
        /\ IF pc = "monitor"
           THEN /\ monitorContext' = [monitorContext EXCEPT !.routeParameters = h.parameters]
                /\ UNCHANGED requestContext
           ELSE /\ requestContext' = [requestContext EXCEPT !.routeParameters = h.parameters]
                /\ UNCHANGED monitorContext
  /\ UNCHANGED <<table, pc, method, path, handler, requestError, heap, wire>>

\* Lines 430-432: the catch clause, for the thrown value `error`.
Catch(objects, response, error) ==
  LET w == withHeaders(objects, extractError(error), objects[response].headers, 500)
  IN /\ requestError' = error
     /\ heap' = w.heap
     /\ requestContext' = [requestContext EXCEPT !.response = w.ref]
     /\ handlers' = <<>>
     /\ pc' = "finally"

\* The value a postfix handler returns is dropped.
SettlePriorityPrefixOnly(b) ==
  /\ pc \in {"prefix", "postfix"}
  /\ UNCHANGED aside
  /\ awaiting # <<>>
  /\ LET h == awaiting[1]
         ran == RunCallback(heap, requestContext.response, h.handler, b)
     IN /\ events' = Append(events, Settled(h, pc, b, ran.value))
        /\ awaiting' = <<>>
        /\ IF b.outcome = "throw"
           THEN Catch(ran.heap, requestContext.response, ran.value)
           ELSE IF Truthy(ran.value) /\ pc = "prefix"
           THEN LET w == withHeaders(ran.heap, ran.value,
                                     ran.heap[requestContext.response].headers, 200)
                IN /\ heap' = w.heap
                   /\ requestContext' = [requestContext EXCEPT !.response = w.ref]
                   /\ handlers' = <<>>
                   /\ pc' = "finally"
                   /\ UNCHANGED requestError
           ELSE /\ heap' = ran.heap
                /\ UNCHANGED <<requestContext, handlers, pc, requestError>>
  /\ UNCHANGED <<table, method, path, handler, monitorContext, wire>>

\* Lines 359-362, 411-414 and 427-429: a prefix or postfix handler settles.
SettlePriority(b) ==
  /\ pc \in {"prefix", "postfix"}
  /\ UNCHANGED aside
  /\ awaiting # <<>>
  /\ LET h == awaiting[1]
         ran == RunCallback(heap, requestContext.response, h.handler, b)
     IN /\ events' = Append(events, Settled(h, pc, b, ran.value))
        /\ awaiting' = <<>>
        /\ IF b.outcome = "throw"
           THEN Catch(ran.heap, requestContext.response, ran.value)
           ELSE IF Truthy(ran.value)
           THEN LET w == withHeaders(ran.heap, ran.value,
                                     ran.heap[requestContext.response].headers, 200)
                IN /\ heap' = w.heap
                   /\ requestContext' = [requestContext EXCEPT !.response = w.ref]
                   /\ handlers' = <<>>
                   /\ pc' = "finally"
                   /\ UNCHANGED requestError
           ELSE /\ heap' = ran.heap
                /\ UNCHANGED <<requestContext, handlers, pc, requestError>>
  /\ UNCHANGED <<table, method, path, handler, monitorContext, wire>>

\* A listener that looks the main handler up when the prefix loop is over.
PrefixEndResolvesAgain ==
  /\ pc = "prefix"
  /\ UNCHANGED aside
  /\ Awaited
  /\ handlers = <<>>
  /\ LET now == getHandler(method, path, roots["handler"], FALSE)
     IN IF ~now.found
        THEN /\ pc' = "finally"
             /\ UNCHANGED <<handlers, awaiting, requestContext, events, requestError, heap>>
        ELSE /\ pc' = "handler"
             /\ awaiting' = <<now.list[1]>>
             /\ requestContext' =
                  [requestContext EXCEPT !.routeParameters = now.list[1].parameters]
             /\ events' = Append(events, Invoked(now.list[1], "handler"))
             /\ UNCHANGED <<handlers, requestError, heap>>
  /\ UNCHANGED <<table, method, path, handler, monitorContext, wire>>

\* Lines 364 and 411-426: the prefix loop is over.  Without a main handler
\* an OPTIONS request returns; with one, the listener calls it; otherwise
\* it goes on to the postfix handlers.
PrefixEnd ==
  /\ pc = "prefix"
  /\ UNCHANGED aside
  /\ Awaited
  /\ handlers = <<>>
  /\ IF ~handler.found /\ method = "options"
     THEN /\ pc' = "finally"
          /\ UNCHANGED <<handlers, awaiting, requestContext, events, requestError, heap>>
     ELSE IF handler.found /\ ~handler.isArray
     THEN /\ pc' = "handler"
          /\ awaiting' = <<handler.list[1]>>
          /\ requestContext' =
               [requestContext EXCEPT !.routeParameters = handler.list[1].parameters]
          /\ events' = Append(events, Invoked(handler.list[1], "handler"))
          /\ UNCHANGED <<handlers, requestError, heap>>
     ELSE LET postfixes == getMultiHandlers(method, path, roots["postfix"])
          IN /\ IF IsThrown(postfixes)
                THEN Catch(heap, requestContext.response, LookupError)
                ELSE /\ pc' = "postfix"
                     /\ handlers' = SortByPriority(postfixes)
                     /\ UNCHANGED <<requestContext, requestError, heap>>
             /\ UNCHANGED <<awaiting, events>>
  /\ UNCHANGED <<table, method, path, handler, monitorContext, wire>>

\* A falsy result leaves the response of the context as it is.
setHandlerResponseKeepsOnFalsy(objects, response, result) ==
  IF Truthy(result)
  THEN withHeaders(objects, result, objects[response].headers, 200)
  ELSE [heap |-> objects, ref |-> response]

\* A setHandlerResponse that does not ask whether the response is a stream.
setHandlerResponseReplacesStream(objects, response, result) ==
  IF Truthy(result)
  THEN withHeaders(objects, result, objects[response].headers, 200)
  ELSE withHeaders(objects, Str(""), objects[response].headers, 200)

\* The heap and the response of the context after setHandlerResponse.
setHandlerResponse(objects, response, result) ==
  IF objects[response].stream
  THEN [heap |-> objects, ref |-> response]
  ELSE IF Truthy(result)
  THEN withHeaders(objects, result, objects[response].headers, 200)
  ELSE withHeaders(objects, Str(""), objects[response].headers, 200)

\* Lines 422-426: the main handler settles; the postfix lookup follows.
SettleMain(b) ==
  /\ pc = "handler"
  /\ UNCHANGED aside
  /\ awaiting # <<>>
  /\ LET h == awaiting[1]
         ran == RunCallback(heap, requestContext.response, h.handler, b)
     IN /\ events' = Append(events, Settled(h, pc, b, ran.value))
        /\ awaiting' = <<>>
        /\ IF b.outcome = "throw"
           THEN Catch(ran.heap, requestContext.response, ran.value)
           ELSE LET w == setHandlerResponse(ran.heap, requestContext.response, ran.value)
                    postfixes == getMultiHandlers(method, path, roots["postfix"])
                IN IF IsThrown(postfixes)
                   THEN Catch(w.heap, w.ref, LookupError)
                   ELSE /\ heap' = w.heap
                        /\ requestContext' = [requestContext EXCEPT !.response = w.ref]
                        /\ handlers' = SortByPriority(postfixes)
                        /\ pc' = "postfix"
                        /\ UNCHANGED requestError
  /\ UNCHANGED <<table, method, path, handler, monitorContext, wire>>

\* Lines 364 and 427: the postfix loop is over without a truthy result.
PostfixEnd ==
  /\ pc = "postfix"
  /\ UNCHANGED aside
  /\ Awaited
  /\ handlers = <<>>
  /\ pc' = "finally"
  /\ UNCHANGED <<table, method, path, handler, handlers, awaiting, requestError,
                 requestContext, monitorContext, heap, events, wire>>

\* Lines 434-435 and 368-375: the finally clause sets context.error and
\* executeMonitors looks the monitors up and makes their context.  A lookup
\* that throws here is caught by nothing: the listener's promise rejects
\* and line 436 is not reached.
EnterFinally ==
  /\ pc = "finally"
  /\ UNCHANGED aside
  /\ LET monitors == getMultiHandlers(method, path, roots["monitor"])
         snapshot == cloneResponse(heap, requestContext.response)
     IN /\ requestContext' = [requestContext EXCEPT !.error = requestError]
        /\ IF IsThrown(monitors)
           THEN /\ pc' = "rejected"
                /\ UNCHANGED <<handlers, heap, monitorContext>>
           ELSE /\ pc' = "monitor"
                /\ handlers' = SortByPriority(monitors)
                /\ heap' = snapshot.heap
                /\ monitorContext' =
                     [requestContext' EXCEPT !.routeParameters = NoParameters,
                                             !.response = snapshot.ref]
  /\ UNCHANGED <<table, method, path, handler, awaiting, requestError, events, wire>>

\* A monitor loop without the try/catch: a throw ends the loop.
SettleMonitorUncaught(b) ==
  /\ pc = "monitor"
  /\ UNCHANGED aside
  /\ awaiting # <<>>
  /\ LET h == awaiting[1]
         ran == RunCallback(heap, monitorContext.response, h.handler, b)
     IN /\ events' = Append(events, Settled(h, pc, b, ran.value))
        /\ heap' = ran.heap
  /\ awaiting' = <<>>
  /\ handlers' = IF b.outcome = "throw" THEN <<>> ELSE handlers
  /\ UNCHANGED <<table, pc, method, path, handler, requestError,
                 requestContext, monitorContext, wire>>

\* Lines 378-382: a monitor settles; what it returns or throws is dropped.
SettleMonitor(b) ==
  /\ pc = "monitor"
  /\ UNCHANGED aside
  /\ awaiting # <<>>
  /\ LET h == awaiting[1]
         ran == RunCallback(heap, monitorContext.response, h.handler, b)
     IN /\ events' = Append(events, Settled(h, pc, b, ran.value))
        /\ heap' = ran.heap
  /\ awaiting' = <<>>
  /\ UNCHANGED <<table, pc, method, path, handler, handlers, requestError,
                 requestContext, monitorContext, wire>>

\* Line 436: the monitors are over, the response is written.
Finalize ==
  /\ pc = "monitor"
  /\ UNCHANGED aside
  /\ Awaited
  /\ handlers = <<>>
  /\ wire' = Append(wire, handleResult(isHeadRequest, heap[requestContext.response]))
  /\ pc' = "sent"
  /\ UNCHANGED <<table, method, path, handler, handlers, awaiting, requestError,
                 requestContext, monitorContext, heap, events>>

\* The listener has returned: its frame and its context are gone.
Close ==
  /\ pc \in {"sent", "rejected"}
  /\ UNCHANGED aside
  /\ pc' = "idle"
  /\ method' = ""
  /\ path' = <<>>
  /\ handler' = NoLookup
  /\ handlers' = <<>>
  /\ awaiting' = <<>>
  /\ requestError' = Undefined
  /\ requestContext' = NoContext
  /\ monitorContext' = NoContext
  /\ heap' = <<>>
  /\ events' = <<>>
  /\ wire' = <<>>
  /\ UNCHANGED table

Next ==
  \/ \E d \in RouteDecls : Register(d)
  \/ \E m \in RequestMethods, url \in RequestUrls : Receive(m, url)
  \/ Invoke
  \/ \E b \in HandlerBehaviours : SettlePriority(b)
  \/ PrefixEnd
  \/ \E b \in HandlerBehaviours : SettleMain(b)
  \/ PostfixEnd
  \/ EnterFinally
  \/ \E b \in MonitorBehaviours : SettleMonitor(b)
  \/ Finalize
  \/ Close

Spec == Init /\ [][Next]_vars

(***************************************************************************)
(* The same system with the registration order kept, and callbacks that    *)
(* return nothing or return a value.                                       *)
(***************************************************************************)
OrderBehaviours ==
  { Behaviour("none", "return", "undefined", 0),
    Behaviour("addHeader", "return", "string", 0) }

NextOrder ==
  \/ \E d \in OrderDecls : RegisterInOrder(d)
  \/ \E m \in RequestMethods, url \in RequestUrls : Receive(m, url)
  \/ Invoke
  \/ \E b \in OrderBehaviours : SettlePriority(b)
  \/ PrefixEnd
  \/ \E b \in OrderBehaviours : SettleMain(b)
  \/ PostfixEnd
  \/ EnterFinally
  \/ SettleMonitor(ReturnsUndefined)
  \/ Finalize
  \/ Close

SpecOrder == Init /\ [][NextOrder]_vars

(***************************************************************************)
(* The same system with main handlers under the roots `get`, `head` and    *)
(* `any`, for GET and HEAD requests.                                       *)
(***************************************************************************)
HeadBehaviours ==
  { Behaviour("none", "return", "undefined", 0),
    Behaviour("addHeader", "return", "string", 0),
    Behaviour("none", "return", "HTTPResult", 201),
    Behaviour("addHeader", "throw", "Error", 0) }

NextHead ==
  \/ \E d \in HeadDecls : Register(d)
  \/ \E m \in HeadMethods, url \in HeadUrls : Receive(m, url)
  \/ Invoke
  \/ \E b \in OrderBehaviours : SettlePriority(b)
  \/ PrefixEnd
  \/ \E b \in HeadBehaviours : SettleMain(b)
  \/ PostfixEnd
  \/ EnterFinally
  \/ SettleMonitor(ReturnsUndefined)
  \/ Finalize
  \/ Close

SpecHead == Init /\ [][NextHead]_vars

(***************************************************************************)
(* The same system with static, dynamic and catch-all patterns, the order  *)
(* of registration kept, and callbacks that do nothing but return.         *)
(***************************************************************************)
NextPattern ==
  \/ \E d \in PatternDecls : RegisterInOrder(d)
  \/ \E url \in PatternUrls : Receive(<<"GET">>, url)
  \/ Invoke
  \/ SettlePriority(ReturnsUndefined)
  \/ PrefixEnd
  \/ SettleMain(ReturnsString)
  \/ PostfixEnd
  \/ EnterFinally
  \/ SettleMonitor(ReturnsUndefined)
  \/ Finalize
  \/ Close

SpecPattern == Init /\ [][NextPattern]_vars

(***************************************************************************)
(* The same system for a module that declares malformed patterns too.      *)
(***************************************************************************)
NextMixed ==
  \/ \E d \in MixedDecls : Register(d)
  \/ \E url \in MixedUrls : Receive(<<"GET">>, url)
  \/ Invoke
  \/ SettlePriority(ReturnsUndefined)
  \/ PrefixEnd
  \/ SettleMain(ReturnsString)
  \/ PostfixEnd
  \/ EnterFinally
  \/ SettleMonitor(ReturnsUndefined)
  \/ Finalize
  \/ Close

SpecMixed == Init /\ [][NextMixed]_vars

(***************************************************************************)
(* A module that registers and unregisters routes while no request is      *)
(* being served: handlers on a method root, on one static node (twice), in *)
(* the subtree of a dynamic child and in a catch-all branch.               *)
(***************************************************************************)
RemoveDecls ==
  { Decl("cors", "prefix", <<"any">>, LocRoot, <<HIGHEST>>),
    Decl("static", "handler", <<"get">>, LocAEnd, <<>>),
    Decl("twin", "handler", <<"get">>, LocAEnd, <<>>),
    Decl("byId", "handler", <<"get">>, PatIdEnd, <<>>),
    Decl("upToEnd", "handler", <<"get">>, PatXEnd, <<>>),
    Decl("restAny", "handler", <<"any">>, PatRest, <<>>),
    Decl("monAny", "monitor", <<"any">>, LocRoot, <<>>) }

RemoveIds == {d.id : d \in RemoveDecls}

NextRemove ==
  \/ \E d \in RemoveDecls : Register(d)
  \/ \E id \in RemoveIds : Unregister(id)

SpecRemove == Init /\ [][NextRemove]_vars

(***************************************************************************)
(* computeParameter.  A provider or modifier is a function of the model:   *)
(* what it computes from the previous value, and whether it returns the    *)
(* value or a promise that resolves to it later.                           *)
(***************************************************************************)
MaxCalls == 2

Num(n) == [t |-> "number", num |-> n]

NaN == [t |-> "NaN"]

\* A promise that has not settled, used as a value.
PendingPromise == [t |-> "Promise"]

Fn(op, n, deferred) == [op |-> op, n |-> n, deferred |-> deferred]

\* f.apply(obj, [context, previous]) : the value returned or thrown.
Apply(f, previous) ==
  CASE f.op = "const" -> [threw |-> FALSE, value |-> Num(f.n)]
    [] f.op = "inc" ->
         [threw |-> FALSE,
          value |-> IF previous.t = "number" THEN Num(previous.num + 1) ELSE NaN]
    [] f.op = "double" ->
         [threw |-> FALSE,
          value |-> IF previous.t = "number" THEN Num(2 * previous.num) ELSE NaN]
    [] OTHER -> [threw |-> TRUE, value |-> Err(Str("boom"))]

ComputedParameter(isNull, provider, modifiers) ==
  [isNull |-> isNull, provider |-> provider, modifiers |-> modifiers]

\* The computed parameters of the handlers: null, one without provider,
\* and providers followed by no, one and two modifiers.
ComputedParameters ==
  { ComputedParameter(TRUE, <<>>, <<>>),
    ComputedParameter(FALSE, <<>>, <<Fn("inc", 0, FALSE)>>),
    ComputedParameter(FALSE, <<Fn("const", 1, TRUE)>>, <<>>),
    ComputedParameter(FALSE, <<Fn("const", 1, FALSE)>>, <<Fn("inc", 0, TRUE), Fn("double", 0, FALSE)>>),
    ComputedParameter(FALSE, <<Fn("const", 1, TRUE)>>, <<Fn("double", 0, TRUE), Fn("inc", 0, FALSE)>>),
    ComputedParameter(FALSE, <<Fn("const", 2, FALSE)>>, <<Fn("throw", 0, FALSE), Fn("inc", 0, FALSE)>>),
    ComputedParameter(FALSE, <<Fn("throw", 0, FALSE)>>, <<Fn("inc", 0, FALSE)>>) }

Contexts == {"ctx1", "ctx2"}

\* The call as `await f.apply(obj, [context, previous])` leaves it: rejected
\* when f throws, waiting for the value of stage k otherwise.
invokeStage(call, f, k, previous) ==
  LET started == [e |-> "invoke", k |-> k, context |-> call.context, this |-> call.obj,
                  previous |-> previous]
      resolved == [e |-> "resolve", k |-> k, context |-> call.context, this |-> call.obj,
                   previous |-> previous]
  IN IF Apply(f, previous).threw
     THEN [call EXCEPT !.state = "rejected", !.result = Apply(f, previous).value,
                       !.trace = Append(@, started)]
     ELSE [call EXCEPT !.state = "awaiting", !.k = k,
                       !.awaited = [settled |-> ~f.deferred, value |-> Apply(f, previous).value],
                       !.trace = IF f.deferred THEN Append(@, started)
                                 ELSE Append(Append(@, started), resolved)]

\* A continuation that does not wait for the awaited promise.
stageSettledNever(call) == TRUE

\* `await`: the function goes on when the awaited value has settled.
stageSettled(call) == call.awaited.settled

\* Lines 313-317: the call up to its first await, or its return.
computeParameter(context, param, obj) ==
  IF param.isNull \/ param.provider = <<>>
  THEN [context |-> context, param |-> param, obj |-> obj, state |-> "resolved",
        k |-> 0, awaited |-> [settled |-> TRUE, value |-> Undefined],
        result |-> Undefined, trace |-> <<>>]
  ELSE invokeStage([context |-> context, param |-> param, obj |-> obj, state |-> "resolved",
                    k |-> 0, awaited |-> [settled |-> TRUE, value |-> Undefined],
                    result |-> Undefined, trace |-> <<>>],
                   param.provider[1], 0, Undefined)

ComputeParameter(context, param, obj) ==
  /\ Len(compute) < MaxCalls
  /\ compute' = Append(compute, computeParameter(context, param, obj))
  /\ UNCHANGED <<serving, controllers>>

\* The promise that call c awaits resolves.
StageSettles(c) ==
  /\ compute[c].state = "awaiting"
  /\ ~compute[c].awaited.settled
  /\ compute' = [compute EXCEPT ![c].awaited.settled = TRUE,
                                ![c].trace = Append(@, [@[Len(@)] EXCEPT !.e = "resolve"])]
  /\ UNCHANGED <<serving, controllers>>

\* Lines 317-321: the call from the value of stage k to its next await, or
\* its return.
ComputeResume(c) ==
  /\ compute[c].state = "awaiting"
  /\ stageSettled(compute[c])
  /\ LET call == compute[c]
         val == IF call.awaited.settled THEN call.awaited.value ELSE PendingPromise
     IN compute' =
          [compute EXCEPT ![c] =
             IF call.k < Len(call.param.modifiers)
             THEN invokeStage(call, call.param.modifiers[call.k + 1], call.k + 1, val)
             ELSE [call EXCEPT !.state = "resolved", !.result = val]]
  /\ UNCHANGED <<serving, controllers>>

NextCompute ==
  \/ \E context \in Contexts : \E param \in ComputedParameters : \E obj \in 1..2 :
       ComputeParameter(context, param, obj)
  \/ \E c \in 1..Len(compute) : StageSettles(c)
  \/ \E c \in 1..Len(compute) : ComputeResume(c)

SpecCompute == Init /\ [][NextCompute]_vars

(***************************************************************************)
(* GetControllerInstance.  The cache of a context is the set of its        *)
(* entries [context, cls, instance]; an instance is known by its place in  *)
(* the list of the instances made.                                         *)
(***************************************************************************)
MaxGets == 3

ControllerClasses == {"A", "B", "C"}

\* GetMetadata(controllerClass, ControllerMeta).computed_props, as
\* Object.entries enumerates it.
computed_props(cls) ==
  CASE cls = "A" ->
         <<[key |-> "user",
            parameter |-> ComputedParameter(FALSE, <<Fn("const", 1, TRUE)>>, <<>>)]>>
    [] cls = "C" ->
         <<[key |-> "bad",
            parameter |-> ComputedParameter(FALSE, <<Fn("throw", 0, FALSE)>>, <<>>)]>>
    [] OTHER -> <<>>

\* controllerCache.get(cacheKey) : the entries under the key (none when
\* the result is undefined).
cachedController(cache, context, cls) ==
  {entry \in cache : entry.context = context /\ entry.cls = cls}

\* controllerCache.set(cacheKey, controllerInstance)
cacheSet(cache, context, cls, instance) ==
  (cache \ cachedController(cache, context, cls))
    \cup {[context |-> context, cls |-> cls, instance |-> instance]}

\* The context that executeMonitors makes of the context of a request.
SnapshotOf(context) == context \o ".monitor"

\* A getControllerCache for which the context of the monitors never has
\* the Map of the context it was made of.
getControllerCacheOwn(context) == context

\* getControllerCache(context): the Map that the context holds under
\* classCacheSymbol, known by the context it was made for.  The spread of
\* executeMonitors copies the property when the context of the request has
\* it, which it has from its first call of GetControllerInstance on; a
\* context without the property is given a Map of its own.
getControllerCache(context) ==
  LET originals ==
        {o \in Contexts :
           /\ context = SnapshotOf(o)
           /\ \E g \in 1..Len(controllers.calls) : controllers.calls[g].context = o}
  IN IF originals # {} THEN CHOOSE o \in originals : TRUE ELSE context

\* Lines 161-173: the call up to its return from the cache, or up to the
\* await of applyComputedProperties, which starts computeParameter for each
\* computed property.
GetControllerInstance(cls, context) ==
  /\ Len(controllers.calls) < MaxGets
  /\ LET cached == cachedController(controllers.cache, getControllerCache(context), cls)
         props == computed_props(cls)
         instance == Len(controllers.made) + 1
     IN IF cached # {}
        THEN /\ controllers' =
                  [controllers EXCEPT !.calls =
                     Append(@, [cls |-> cls, context |-> context, state |-> "resolved",
                                instance |-> (CHOOSE entry \in cached : TRUE).instance,
                                first |-> 1, last |-> 0])]
             /\ UNCHANGED compute
        ELSE /\ Len(compute) + Len(props) <= MaxCalls
             /\ compute' =
                  compute \o [i \in 1..Len(props) |->
                                computeParameter(context, props[i].parameter, instance)]
             /\ controllers' =
                  [controllers EXCEPT
                     !.made = Append(@, [cls |-> cls, context |-> context, props |-> <<>>]),
                     !.calls =
                       Append(@, [cls |-> cls, context |-> context, state |-> "awaiting",
                                  instance |-> instance, first |-> Len(compute) + 1,
                                  last |-> Len(compute) + Len(props)])]
  /\ UNCHANGED serving

\* Lines 149-154 and 173-176: Promise.all has settled; the computed values
\* are on the instance, the instance is stored in the cache and returned, or
\* the call rejects as a computeParameter did.
ControllerResume(g) ==
  /\ controllers.calls[g].state = "awaiting"
  /\ LET call == controllers.calls[g]
         props == computed_props(call.cls)
         rejected == \E c \in call.first..call.last : compute[c].state = "rejected"
     IN /\ rejected \/ \A c \in call.first..call.last : compute[c].state = "resolved"
        /\ controllers' =
             IF rejected
             THEN [controllers EXCEPT !.calls[g].state = "rejected"]
             ELSE [controllers EXCEPT
                     !.calls[g].state = "resolved",
                     !.made[call.instance].props =
                       [i \in 1..Len(props) |->
                          [key |-> props[i].key, val |-> compute[call.first + i - 1].result]],
                     !.cache = cacheSet(@, getControllerCache(call.context), call.cls,
                                        call.instance)]
  /\ UNCHANGED <<serving, compute>>

NextController ==
  \/ \E cls \in ControllerClasses : \E context \in Contexts :
       GetControllerInstance(cls, context)
  \/ \E g \in 1..Len(controllers.calls) : ControllerResume(g)
  \/ \E c \in 1..Len(compute) : StageSettles(c)
  \/ \E c \in 1..Len(compute) : ComputeResume(c)

SpecController == Init /\ [][NextController]_vars

(***************************************************************************)
(* Two requests dispatched concurrently.  requestListener is invoked twice;*)
(* one invocation runs at a time and the other is parked at an await: its  *)
(* local variables, its context and the objects it has made are its own.   *)
(* The scheduler may pass control to the other invocation between any two  *)
(* steps.  The context of the invocation that runs is known by the name    *)
(* that the parked one does not bear.                                      *)
(***************************************************************************)

TwoDecls ==
  { Decl("byId", "handler", <<"get">>, PatId, <<>>),
    Decl("cors", "prefix", <<"any">>, LocRoot, <<HIGHEST>>),
    Decl("monAny", "monitor", <<"any">>, LocRoot, <<>>) }

TwoUrls == {LocA, LocB}

TwoPrefixBehaviours ==
  { Behaviour("none", "return", "undefined", 0),
    Behaviour("addHeader", "return", "string", 0) }

TwoMainBehaviours ==
  { Behaviour("addHeader", "return", "string", 0),
    Behaviour("none", "throw", "Error", 0) }

Running == IF parked.context = "ctx1" THEN "ctx2" ELSE "ctx1"

\* Two invocations that share the variable requestError.
SwitchSharedError ==
  /\ request # parked.state
  /\ parked' = [context |-> Running, state |-> request]
  /\ pc' = parked.state[1]
  /\ method' = parked.state[2]
  /\ path' = parked.state[3]
  /\ handler' = parked.state[4]
  /\ handlers' = parked.state[5]
  /\ awaiting' = parked.state[6]
  /\ requestContext' = parked.state[8]
  /\ monitorContext' = parked.state[9]
  /\ heap' = parked.state[10]
  /\ events' = parked.state[11]
  /\ wire' = parked.state[12]
  /\ UNCHANGED <<table, util, compute, controllers, upgrade, requestError>>

\* The invocation that runs reaches an await and the parked one goes on.
Switch ==
  /\ request # parked.state
  /\ parked' = [context |-> Running, state |-> request]
  /\ pc' = parked.state[1]
  /\ method' = parked.state[2]
  /\ path' = parked.state[3]
  /\ handler' = parked.state[4]
  /\ handlers' = parked.state[5]
  /\ awaiting' = parked.state[6]
  /\ requestError' = parked.state[7]
  /\ requestContext' = parked.state[8]
  /\ monitorContext' = parked.state[9]
  /\ heap' = parked.state[10]
  /\ events' = parked.state[11]
  /\ wire' = parked.state[12]
  /\ UNCHANGED <<table, util, compute, controllers, upgrade>>

\* invokeHandler: the main handler of the request asks for its controller.
InvokeHandler(cls) ==
  /\ pc = "handler"
  /\ \A g \in 1..Len(controllers.calls) : controllers.calls[g].context # Running
  /\ GetControllerInstance(cls, Running)

NextTwo ==
  \/ \E d \in TwoDecls : parked.state[1] = "idle" /\ Register(d)
  \/ \E url \in TwoUrls : Receive(<<"GET">>, url)
  \/ Invoke
  \/ \E b \in TwoPrefixBehaviours : SettlePriority(b)
  \/ PrefixEnd
  \/ \E b \in TwoMainBehaviours : SettleMain(b)
  \/ PostfixEnd
  \/ EnterFinally
  \/ SettleMonitor(ReturnsUndefined)
  \/ Finalize
  \/ Switch
  \/ InvokeHandler("B")
  \/ \E g \in 1..Len(controllers.calls) : ControllerResume(g)

SpecTwo == Init /\ [][NextTwo]_vars

(***************************************************************************)
(* A request whose handlers are methods of controllers: the callback that  *)
(* routesProxy.register gives to registerHandler is invokeHandler, which   *)
(* asks for the controller instance of the context it is given and         *)
(* settles after that call has.                                            *)
(***************************************************************************)
SharedDecls ==
  { Decl("main", "handler", <<"get">>, LocA, <<>>),
    Decl("cors", "prefix", <<"any">>, LocRoot, <<HIGHEST>>),
    Decl("monAny", "monitor", <<"any">>, LocRoot, <<>>) }

SharedBehaviours ==
  { Behaviour("none", "return", "undefined", 0),
    Behaviour("none", "throw", "Error", 0) }

\* The invocations of callbacks by the dispatcher so far.
CallbacksCalled == {i \in 1..Len(events) : events[i].e = "invoke"}

\* The context that the dispatcher gives to the callback it awaits.
ContextName == IF pc = "monitor" THEN SnapshotOf(Running) ELSE Running

\* Lines 193-194: the callback awaited asks for the instance of its class.
InvokeController(cls) ==
  /\ pc \in {"prefix", "handler", "postfix", "monitor"}
  /\ awaiting # <<>>
  /\ Len(controllers.calls) = Cardinality(CallbacksCalled) - 1
  /\ GetControllerInstance(cls, ContextName)

\* Lines 194-198: the callback awaited settles with the outcome b once its
\* call of GetControllerInstance has: it throws when that call rejected.
ControllerSettled(b) ==
  /\ awaiting # <<>>
  /\ Len(controllers.calls) = Cardinality(CallbacksCalled)
  /\ controllers.calls[Len(controllers.calls)].state # "awaiting"
  /\ controllers.calls[Len(controllers.calls)].state = "rejected" => b.outcome = "throw"

NextShared ==
  \/ \E d \in SharedDecls : Register(d)
  \/ Receive(<<"GET">>, LocA)
  \/ Invoke
  \/ \E cls \in ControllerClasses : InvokeController(cls)
  \/ \E g \in 1..Len(controllers.calls) : ControllerResume(g)
  \/ \E c \in 1..Len(compute) : StageSettles(c)
  \/ \E c \in 1..Len(compute) : ComputeResume(c)
  \/ \E b \in SharedBehaviours : ControllerSettled(b) /\ SettlePriority(b)
  \/ PrefixEnd
  \/ \E b \in SharedBehaviours : ControllerSettled(b) /\ SettleMain(b)
  \/ PostfixEnd
  \/ EnterFinally
  \/ \E b \in SharedBehaviours : ControllerSettled(b) /\ SettleMonitor(b)
  \/ Finalize

SpecShared == Init /\ [][NextShared]_vars

(***************************************************************************)
(* invokeHandler whole: after the controller instance, the parameters of   *)
(* the handler are computed, all at once, and the callback is applied to   *)
(* the instance with their values.  The parameters declared for a handler  *)
(* are the entries [index, parameter] of computed_params[key].             *)
(***************************************************************************)
NullParameter == ComputedParameter(TRUE, <<>>, <<>>)

DeclaredAt(paramsMap, i) == {entry \in paramsMap : entry.index = i}

\* ControllerMeta.getParameterArray(key): the parameters from index 0 to
\* the greatest index declared, null where none is declared.  Element i + 1
\* of the sequence is params[i].
getParameterArray(paramsMap) ==
  LET indices == {entry.index : entry \in paramsMap} \cup {0}
      paramsMax == CHOOSE m \in indices : \A n \in indices : n <= m
  IN [i \in 1..(paramsMax + 1) |->
        IF DeclaredAt(paramsMap, i - 1) # {}
        THEN (CHOOSE entry \in DeclaredAt(paramsMap, i - 1) : TRUE).parameter
        ELSE NullParameter]

At(i, parameter) == [index |-> i, parameter |-> parameter]

\* The parameters declared for the handlers: none, one at index 0, one at
\* index 1 alone, two, and two of which one has a provider or a modifier
\* that throws.
DeclaredParameters ==
  { {},
    {At(0, ComputedParameter(FALSE, <<Fn("const", 1, TRUE)>>, <<>>))},
    {At(1, ComputedParameter(FALSE, <<Fn("const", 2, FALSE)>>, <<Fn("inc", 0, TRUE)>>))},
    {At(0, ComputedParameter(FALSE, <<Fn("const", 1, TRUE)>>, <<>>)),
     At(1, ComputedParameter(FALSE, <<Fn("const", 2, FALSE)>>, <<Fn("inc", 0, TRUE)>>))},
    {At(0, ComputedParameter(FALSE, <<Fn("throw", 0, FALSE)>>, <<>>)),
     At(1, ComputedParameter(FALSE, <<Fn("const", 1, TRUE)>>, <<>>))},
    {At(0, ComputedParameter(FALSE, <<Fn("const", 1, TRUE)>>, <<>>)),
     At(1, ComputedParameter(FALSE, <<Fn("const", 2, TRUE)>>, <<Fn("throw", 0, FALSE)>>))} }

\* What the callback of a handler does once it is applied.
CallbackBehaviours ==
  { Behaviour("none", "return", "undefined", 0),
    Behaviour("none", "return", "string", 0),
    Behaviour("none", "throw", "string", 0) }

\* The callback given to registerHandler rejects with what a provider or a
\* modifier has thrown.
ProviderThrew == Behaviour("none", "throw", "Error", 0)

\* Lines 195-197: the instance is there; computeParameter is called for
\* every parameter of the handler, in order, before Promise.all is awaited.
ResolveParameters(paramsMap) ==
  /\ pc \in {"prefix", "handler", "postfix", "monitor"}
  /\ awaiting # <<>>
  /\ Len(controllers.calls) = Cardinality(CallbacksCalled)
  /\ controllers.calls[Len(controllers.calls)].state = "resolved"
  /\ \A k \in 1..Len(controllers.applies) : controllers.applies[k].g # Len(controllers.calls)
  /\ LET g == Len(controllers.calls)
         this == controllers.calls[g].instance
         parameters == getParameterArray(paramsMap)
     IN controllers' =
          [controllers EXCEPT !.applies =
             Append(@, [g |-> g, context |-> ContextName, this |-> this,
                        declared |-> paramsMap,
                        calls |-> [i \in 1..Len(parameters) |->
                                     computeParameter(ContextName, parameters[i], this)],
                        state |-> "parameters", args |-> <<>>])]
  /\ UNCHANGED <<serving, compute>>

\* The promise that call i of the parameters of activation k awaits resolves.
ParameterSettles(k, i) ==
  /\ controllers.applies[k].state = "parameters"
  /\ controllers.applies[k].calls[i].state = "awaiting"
  /\ ~controllers.applies[k].calls[i].awaited.settled
  /\ controllers' =
       [controllers EXCEPT
          !.applies[k].calls[i].awaited.settled = TRUE,
          !.applies[k].calls[i].trace = Append(@, [@[Len(@)] EXCEPT !.e = "resolve"])]
  /\ UNCHANGED <<serving, compute>>

\* Lines 317-321 of computeParameter for call i of activation k.
ParameterResume(k, i) ==
  /\ controllers.applies[k].calls[i].state = "awaiting"
  /\ stageSettled(controllers.applies[k].calls[i])
  /\ LET call == controllers.applies[k].calls[i]
         val == IF call.awaited.settled THEN call.awaited.value ELSE PendingPromise
     IN controllers' =
          [controllers EXCEPT !.applies[k].calls[i] =
             IF call.k < Len(call.param.modifiers)
             THEN invokeStage(call, call.param.modifiers[call.k + 1], call.k + 1, val)
             ELSE [call EXCEPT !.state = "resolved", !.result = val]]
  /\ UNCHANGED <<serving, compute>>

\* A call of the callback that does not wait for Promise.all.
ApplyCallbackAtOnce(k) ==
  /\ controllers.applies[k].state = "parameters"
  /\ controllers' =
       [controllers EXCEPT
          !.applies[k].state = "applied",
          !.applies[k].args =
            [i \in 1..Len(controllers.applies[k].calls) |->
               IF controllers.applies[k].calls[i].state = "resolved"
               THEN controllers.applies[k].calls[i].result ELSE PendingPromise]]
  /\ UNCHANGED <<serving, compute>>

\* Lines 195 and 198: Promise.all has settled.  It rejects as soon as one
\* computeParameter has, and invokeHandler with it; it resolves when all
\* have, and the callback is applied to the instance with their values.
ApplyCallback(k) ==
  /\ controllers.applies[k].state = "parameters"
  /\ LET calls == controllers.applies[k].calls
         rejected == \E i \in 1..Len(calls) : calls[i].state = "rejected"
     IN /\ rejected \/ \A i \in 1..Len(calls) : calls[i].state = "resolved"
        /\ controllers' =
             IF rejected
             THEN [controllers EXCEPT !.applies[k].state = "rejected"]
             ELSE [controllers EXCEPT
                     !.applies[k].state = "applied",
                     !.applies[k].args = [i \in 1..Len(calls) |-> calls[i].result]]
  /\ UNCHANGED <<serving, compute>>

\* The callback given to registerHandler settles with the outcome b: with
\* the rejection of GetControllerInstance or of Promise.all, or with what
\* the callback of the handler, once applied, returns or throws.
HandlerSettled(b) ==
  /\ awaiting # <<>>
  /\ Len(controllers.calls) = Cardinality(CallbacksCalled)
  /\ \/ /\ controllers.calls[Len(controllers.calls)].state = "rejected"
        /\ b = ProviderThrew
     \/ \E k \in 1..Len(controllers.applies) :
          /\ controllers.applies[k].g = Len(controllers.calls)
          /\ \/ controllers.applies[k].state = "rejected" /\ b = ProviderThrew
             \/ controllers.applies[k].state = "applied" /\ b \in CallbackBehaviours

InvokeClasses == {"A", "C"}

NextInvoke ==
  \/ \E d \in SharedDecls : Register(d)
  \/ Receive(<<"GET">>, LocA)
  \/ Invoke
  \/ \E cls \in InvokeClasses : InvokeController(cls)
  \/ \E g \in 1..Len(controllers.calls) : ControllerResume(g)
  \/ \E c \in 1..Len(compute) : StageSettles(c)
  \/ \E c \in 1..Len(compute) : ComputeResume(c)
  \/ \E paramsMap \in DeclaredParameters : ResolveParameters(paramsMap)
  \/ \E k \in 1..Len(controllers.applies) :
       \E i \in 1..Len(controllers.applies[k].calls) : ParameterSettles(k, i)
  \/ \E k \in 1..Len(controllers.applies) :
       \E i \in 1..Len(controllers.applies[k].calls) : ParameterResume(k, i)
  \/ \E k \in 1..Len(controllers.applies) : ApplyCallback(k)
  \/ \E b \in CallbackBehaviours \cup {ProviderThrew} : HandlerSettled(b) /\ SettlePriority(b)
  \/ PrefixEnd
  \/ \E b \in CallbackBehaviours \cup {ProviderThrew} : HandlerSettled(b) /\ SettleMain(b)
  \/ PostfixEnd
  \/ EnterFinally
  \/ \E b \in CallbackBehaviours \cup {ProviderThrew} : HandlerSettled(b) /\ SettleMonitor(b)
  \/ Finalize

SpecInvoke == Init /\ [][NextInvoke]_vars

(***************************************************************************)
(* upgradeListener.  The listener uses the variables of requestListener    *)
(* for its own locals of the same names, and the loops of                  *)
(* executePriorityHandlers and executeMonitors are the same.               *)
(***************************************************************************)
UpgradeDecls ==
  { Decl("ws", "websocket", <<"get">>, PatId, <<>>),
    Decl("cors", "prefix", <<"any">>, LocRoot, <<HIGHEST>>),
    Decl("preA", "prefix", <<"get">>, LocA, <<>>),
    Decl("monA", "monitor", <<"get">>, LocA, <<LOW>>),
    Decl("monAny", "monitor", <<"any">>, LocRoot, <<>>) }

UpgradeUrls == {LocA, LocB, LocAB, LocConstructor}

\* Behaviours of the callback of a websocket handler.
WebsocketBehaviours ==
  { Behaviour("none", "return", "undefined", 0),
    Behaviour("none", "return", "string", 0),
    Behaviour("none", "throw", "Error", 0) }

\* wss.handleUpgrade has called back: the protocol upgrade is complete.
UpgradeDone ==
  [e |-> "upgrade", cb |-> "", mode |-> "websocket", b |-> Behaviour("", "", "", 0),
   value |-> Undefined]

\* Lines 487-493: the catch clause, for the thrown value `error`.
UpgradeCatch(objects, error) ==
  LET w == withHeaders(objects, extractError(error),
                       objects[requestContext.response].headers, 500)
  IN /\ requestError' = error
     /\ handlers' = <<>>
     /\ pc' = "finally"
     /\ IF upgrade.hasUpgradedConnection
        THEN /\ upgrade' = [upgrade EXCEPT !.mustDestroySocket = TRUE]
             /\ heap' = objects
             /\ UNCHANGED requestContext
        ELSE /\ upgrade' = [upgrade EXCEPT !.mustDestroySocket = TRUE,
                                           !.mustSendResponse = TRUE]
             /\ heap' = w.heap
             /\ requestContext' = [requestContext EXCEPT !.response = w.ref]

\* Lines 450-475: the context, the websocket lookup and the prefix lookup.
ReceiveUpgrade(reqMethod, url) ==
  /\ pc = "idle"
  /\ LET p == SplitPath(url)
         m == IF reqMethod = <<>> \/ ToLowerCase(reqMethod[1]) = ""
              THEN "get" ELSE ToLowerCase(reqMethod[1])
         h == getHandler(m, p, roots["websocket"], FALSE)
         prefixes == IF h.thrown \/ ~h.found
                     THEN <<>>
                     ELSE getMultiHandlers(m, p, roots["prefix"])
         objects == <<NewHTTPResult(404, Str("Not Found"), <<>>)>>
         context == [routeParameters |-> NoParameters, response |-> 1, error |-> Undefined]
         w == withHeaders(objects, extractError(LookupError), objects[1].headers, 500)
     IN /\ method' = m
        /\ path' = p
        /\ handler' = IF h.thrown THEN NoLookup ELSE h
        /\ IF h.thrown \/ IsThrown(prefixes)
           THEN /\ requestError' = LookupError
                /\ heap' = w.heap
                /\ requestContext' = [context EXCEPT !.response = w.ref]
                /\ upgrade' = [NoUpgrade EXCEPT !.mustDestroySocket = TRUE,
                                                !.mustSendResponse = TRUE]
                /\ handlers' = <<>>
                /\ pc' = "finally"
           ELSE /\ heap' = objects
                /\ requestContext' = context
                /\ UNCHANGED requestError
                /\ IF ~h.found
                   THEN /\ upgrade' = [NoUpgrade EXCEPT !.mustDestroySocket = TRUE,
                                                        !.mustSendResponse = TRUE]
                        /\ pc' = "finally"
                        /\ handlers' = <<>>
                   ELSE /\ upgrade' = NoUpgrade
                        /\ pc' = "prefix"
                        /\ handlers' = SortByPriority(prefixes)
  /\ UNCHANGED <<table, awaiting, monitorContext, events, wire, util, compute, controllers, parked>>

\* Lines 359-362 and 476-481: a prefix handler settles.
UpgradeSettlePrefix(b) ==
  /\ pc = "prefix"
  /\ awaiting # <<>>
  /\ LET h == awaiting[1]
         ran == RunCallback(heap, requestContext.response, h.handler, b)
         w == withHeaders(ran.heap, ran.value,
                          ran.heap[requestContext.response].headers, 200)
     IN /\ events' = Append(events, Settled(h, pc, b, ran.value))
        /\ awaiting' = <<>>
        /\ IF b.outcome = "throw"
           THEN UpgradeCatch(ran.heap, ran.value)
           ELSE IF Truthy(ran.value)
           THEN /\ heap' = w.heap
                /\ requestContext' = [requestContext EXCEPT !.response = w.ref]
                /\ upgrade' = [upgrade EXCEPT !.mustSendResponse = TRUE,
                                              !.mustDestroySocket = TRUE]
                /\ handlers' = <<>>
                /\ pc' = "finally"
                /\ UNCHANGED requestError
           ELSE /\ heap' = ran.heap
                /\ UNCHANGED <<requestContext, handlers, pc, requestError, upgrade>>
  /\ UNCHANGED <<table, method, path, handler, monitorContext, wire, util, compute, controllers,
                 parked>>

\* The listener calls the upgrader while prefix handlers are still to run.
UpgradePrefixEndEarly ==
  /\ pc = "prefix"
  /\ Awaited
  /\ pc' = "upgrading"
  /\ UNCHANGED <<table, method, path, handler, handlers, awaiting, requestError,
                 requestContext, monitorContext, heap, events, wire, aside>>

\* Lines 364 and 483: the prefix loop is over; the listener calls the
\* upgrader and awaits the connection.
UpgradePrefixEnd ==
  /\ pc = "prefix"
  /\ Awaited
  /\ handlers = <<>>
  /\ pc' = "upgrading"
  /\ UNCHANGED <<table, method, path, handler, handlers, awaiting, requestError,
                 requestContext, monitorContext, heap, events, wire, aside>>

\* Lines 483-486: the upgrade is complete; the listener stores the
\* connection, sets the route parameters and calls the websocket handler.
Upgraded ==
  /\ pc = "upgrading"
  /\ pc' = "handler"
  /\ upgrade' = [upgrade EXCEPT !.connection = TRUE, !.hasUpgradedConnection = TRUE]
  /\ requestContext' = [requestContext EXCEPT !.routeParameters = handler.list[1].parameters]
  /\ awaiting' = <<handler.list[1]>>
  /\ events' = Append(Append(events, UpgradeDone), Invoked(handler.list[1], "websocket"))
  /\ UNCHANGED <<table, method, path, handler, handlers, requestError, monitorContext, heap,
                 wire, util, compute, controllers, parked>>

\* Lines 486-493: the websocket handler settles; what it returns is dropped.
UpgradeSettleHandler(b) ==
  /\ pc = "handler"
  /\ awaiting # <<>>
  /\ LET h == awaiting[1]
         ran == RunCallback(heap, requestContext.response, h.handler, b)
     IN /\ events' = Append(events, Settled(h, "websocket", b, ran.value))
        /\ awaiting' = <<>>
        /\ IF b.outcome = "throw"
           THEN UpgradeCatch(ran.heap, ran.value)
           ELSE /\ heap' = ran.heap
                /\ pc' = "finally"
                /\ UNCHANGED <<requestContext, handlers, requestError, upgrade>>
  /\ UNCHANGED <<table, method, path, handler, monitorContext, wire, util, compute, controllers,
                 parked>>

\* Lines 497-502: the monitors are over; the response is written and the
\* socket destroyed if the flags say so.
UpgradeFinalize ==
  /\ pc = "monitor"
  /\ Awaited
  /\ handlers = <<>>
  /\ wire' = IF upgrade.mustSendResponse
             THEN Append(wire, handleResult(FALSE, heap[requestContext.response]))
             ELSE wire
  /\ upgrade' = [upgrade EXCEPT !.destroyed = upgrade.mustDestroySocket]
  /\ pc' = "sent"
  /\ UNCHANGED <<table, method, path, handler, handlers, awaiting, requestError,
                 requestContext, monitorContext, heap, events, util, compute, controllers, parked>>

NextUpgrade ==
  \/ \E d \in UpgradeDecls : Register(d)
  \/ \E reqMethod \in {<<>>, <<"GET">>}, url \in UpgradeUrls : ReceiveUpgrade(reqMethod, url)
  \/ Invoke
  \/ \E b \in HandlerBehaviours : UpgradeSettlePrefix(b)
  \/ UpgradePrefixEnd
  \/ Upgraded
  \/ \E b \in WebsocketBehaviours : UpgradeSettleHandler(b)
  \/ EnterFinally
  \/ \E b \in MonitorBehaviours : SettleMonitor(b)
  \/ UpgradeFinalize

SpecUpgrade == Init /\ [][NextUpgrade]_vars

(***************************************************************************)
(* Requests whose handlers ask the response of the context for its write   *)
(* stream.                                                                 *)
(***************************************************************************)
StreamDecls ==
  { Decl("main", "handler", <<"get">>, LocA, <<>>),
    Decl("cors", "prefix", <<"any">>, LocRoot, <<HIGHEST>>),
    Decl("postA", "postfix", <<"GET">>, LocA, <<>>),
    Decl("monAny", "monitor", <<"any">>, LocRoot, <<>>) }

StreamMethods == {<<"GET">>, <<"HEAD">>}

\* Behaviours of the main handler: with or without @WriteStream().
StreamMainBehaviours ==
  { Behaviour("getWriteStream", "return", "undefined", 0),
    Behaviour("getWriteStream", "return", "string", 0),
    Behaviour("getWriteStream", "return", "object", 0),
    Behaviour("getWriteStream", "return", "HTTPResult", 201),
    Behaviour("none", "return", "string", 0),
    Behaviour("none", "return", "HTTPResult", 201),
    Behaviour("none", "throw", "Error", 0) }

\* Behaviours of the prefix and postfix handlers.
StreamPriorityBehaviours ==
  { Behaviour("none", "return", "undefined", 0),
    Behaviour("getWriteStream", "return", "undefined", 0),
    Behaviour("mutate", "return", "empty", 0),
    Behaviour("none", "return", "string", 0),
    Behaviour("none", "throw", "Error", 0) }

NextStream ==
  \/ \E d \in StreamDecls : Register(d)
  \/ \E reqMethod \in StreamMethods : Receive(reqMethod, LocA)
  \/ Invoke
  \/ \E b \in StreamPriorityBehaviours : SettlePriority(b)
  \/ PrefixEnd
  \/ \E b \in StreamMainBehaviours : SettleMain(b)
  \/ PostfixEnd
  \/ EnterFinally
  \/ \E b \in MonitorBehaviours : SettleMonitor(b)
  \/ Finalize

SpecStream == Init /\ [][NextStream]_vars

(***************************************************************************)
(* A request during which routes are registered and unregistered: between  *)
(* two steps of the listener any registration may take place.              *)
(***************************************************************************)
NextLive ==
  \/ \E d \in LiveDecls : Register(d)
  \/ \E d \in LiveDecls : RegisterWhileServing(d)
  \/ \E d \in LiveDecls : UnregisterWhileServing(d.id)
  \/ Receive(<<"GET">>, LocA)
  \/ Invoke
  \/ SettlePriority(ReturnsUndefined)
  \/ PrefixEnd
  \/ SettleMain(ReturnsString)
  \/ PostfixEnd
  \/ EnterFinally
  \/ SettleMonitor(ReturnsUndefined)
  \/ Finalize

SpecLive == Init /\ [][NextLive]_vars

(***************************************************************************)
(* Requests served by handlers whose patterns capture parameters.          *)
(***************************************************************************)
NextParameters ==
  \/ \E d \in ParameterDecls : Register(d)
  \/ \E url \in ParameterUrls : Receive(<<"GET">>, url)
  \/ Invoke
  \/ SettlePriority(ReturnsUndefined)
  \/ PrefixEnd
  \/ \E b \in {ReturnsUndefined, ReturnsString} : SettleMain(b)
  \/ PostfixEnd
  \/ EnterFinally
  \/ SettleMonitor(ReturnsUndefined)
  \/ Finalize

SpecParameters == Init /\ [][NextParameters]_vars

(***************************************************************************)
(* Requests whose handlers set headers on the response of the context and  *)
(* return HTTPResults that carry headers of their own.                     *)
(***************************************************************************)
HeaderDecls ==
  { Decl("main", "handler", <<"get">>, LocA, <<>>),
    Decl("cors", "prefix", <<"any">>, LocRoot, <<HIGHEST>>),
    Decl("preA", "prefix", <<"get">>, LocA, <<>>),
    Decl("postA", "postfix", <<"GET">>, LocA, <<>>),
    Decl("monAny", "monitor", <<"any">>, LocRoot, <<>>) }

HeaderBehaviours ==
  { Behaviour("none", "return", "undefined", 0),
    Behaviour("shareHeader", "return", "undefined", 0),
    Behaviour("addHeader", "return", "undefined", 0),
    Behaviour("none", "return", "HTTPResultWithHeaders", 201),
    Behaviour("shareHeader", "return", "HTTPResultWithHeaders", 201),
    Behaviour("addHeader", "return", "HTTPResult", 201),
    Behaviour("getWriteStream", "return", "HTTPResultWithHeaders", 201) }

NextHeaders ==
  \/ \E d \in HeaderDecls : Register(d)
  \/ Receive(<<"GET">>, LocA)
  \/ Invoke
  \/ \E b \in HeaderBehaviours : SettlePriority(b)
  \/ PrefixEnd
  \/ \E b \in HeaderBehaviours : SettleMain(b)
  \/ PostfixEnd
  \/ EnterFinally
  \/ \E b \in MonitorBehaviours : SettleMonitor(b)
  \/ Finalize

SpecHeaders == Init /\ [][NextHeaders]_vars

(***************************************************************************)
(* api-util: assert and assertValidation.  A call either returns a value   *)
(* or throws one; an HTTPResult thrown is given with its fields.           *)
(***************************************************************************)
Bool(b) == [t |-> "boolean", bool |-> b]

\* Object.create(null): an object without a prototype.
BareObject == [t |-> "bare"]

Returns(v) == [outcome |-> "return", value |-> v]

\* throw new HTTPResult(code, body)
ThrowsHTTPResult(code, body) ==
  [outcome |-> "throw", thrown |-> "HTTPResult", result |-> NewHTTPResult(code, body, <<>>)]

\* A TypeError raised by the JavaScript runtime.
ThrowsTypeError == [outcome |-> "throw", thrown |-> "TypeError"]

\* The operand of `in` is an object: on a primitive value `in` throws.
IsObject(e) == e.t \in {"object", "Error", "HTTPResult", "bare"}

\* 'toString' in e, for an object e: true of every object with a prototype.
HasToString(e) == e.t # "bare"

\* e.toString(), for an object that inherits it: Error.prototype.toString
\* for an Error, Object.prototype.toString otherwise.
toString(e) ==
  IF e.t = "Error"
  THEN IF e.message.t = "undefined" \/ (e.message.t = "string" /\ e.message.str = "")
       THEN "Error"
       ELSE "Error: " \o e.message.str
  ELSE "[object Object]"

\* assert(condition, code, message)
assert(condition, code, message) ==
  IF ~Truthy(condition)
  THEN ThrowsHTTPResult(code, Str(message))
  ELSE Returns(Undefined)

\* assertValidation(body, validator, errorFunc, code).  The validator
\* returns the body, returns a value of its own, or throws a value; the
\* error mapper, if any, returns errorFunc[1].  String(e) is reached only
\* for an object without toString, which it cannot convert.
assertValidation(body, validator, errorFunc, code) ==
  IF validator.op = "throw"
  THEN IF errorFunc # <<>>
       THEN ThrowsHTTPResult(Opt(code, 400), errorFunc[1])
       ELSE IF ~IsObject(validator.value)
       THEN ThrowsTypeError
       ELSE IF HasToString(validator.value)
       THEN ThrowsHTTPResult(Opt(code, 400), Str(toString(validator.value)))
       ELSE ThrowsTypeError
  ELSE Returns(IF validator.op = "pass" THEN body ELSE validator.value)

\* The values a caller may pass as a condition or a validator may throw.
UtilValues ==
  { Undefined, Null, Str(""), Str("invalid"), Bool(FALSE), Bool(TRUE), Num(0), Num(1), NaN,
    Obj(<<>>), Err(Str("Invalid payload")), Err(Str("")), BareObject }

UtilCodes == {400, 404, 422}

UtilMessages == {"", "Not found"}

UtilBodies == { Obj(<<>>), Obj(<<[key |-> "name", val |-> "antelope"]>>) }

Validators ==
  {[op |-> "pass", value |-> Undefined], [op |-> "const", value |-> Str("parsed")]}
    \cup {[op |-> "throw", value |-> v] : v \in UtilValues}

\* No error mapper, or one that returns a string or an object.
ErrorFuncs == { <<>>, <<Str("mapped")>>, <<Obj(<<[key |-> "error", val |-> "invalid"]>>)>> }

OptionalCodes == {<<>>} \cup {<<c>> : c \in UtilCodes}

CallAssert(condition, code, message) ==
  /\ pc = "idle"
  /\ util' = [fn |-> "assert", condition |-> condition, code |-> code, message |-> message,
              done |-> assert(condition, code, message)]
  /\ UNCHANGED <<table, request, parked, upgrade, compute, controllers>>

CallAssertValidation(body, validator, errorFunc, code) ==
  /\ pc = "idle"
  /\ util' = [fn |-> "assertValidation", body |-> body, validator |-> validator,
              errorFunc |-> errorFunc, code |-> code,
              done |-> assertValidation(body, validator, errorFunc, code)]
  /\ UNCHANGED <<table, request, parked, upgrade, compute, controllers>>

NextUtil ==
  \/ \E condition \in UtilValues, code \in UtilCodes, message \in UtilMessages :
       CallAssert(condition, code, message)
  \/ \E body \in UtilBodies, validator \in Validators, errorFunc \in ErrorFuncs,
        code \in OptionalCodes :
       CallAssertValidation(body, validator, errorFunc, code)

SpecUtil == Init /\ [][NextUtil]_vars

(***************************************************************************)
(* Vocabulary of the properties, in terms of what was declared at          *)
(* registration and of the history of the request.                         *)
(***************************************************************************)
AllDecls ==
  RouteDecls \cup OrderDecls \cup HeadDecls \cup PatternDecls \cup MixedDecls \cup RemoveDecls
    \cup TwoDecls \cup UpgradeDecls \cup StreamDecls \cup HeaderDecls \cup ParameterDecls
    \cup LiveDecls

DeclOf(cb) == CHOOSE d \in AllDecls : d.id = cb

DeclPriority(d) == Opt(d.priority, NORMAL)

DeclParts(d) == SplitPath(d.location)

\* The declared (static) pattern covers a leading run of the request path.
LeadsPath(d) ==
  /\ Len(DeclParts(d)) <= Len(path)
  /\ SubSeq(path, 1, Len(DeclParts(d))) = DeclParts(d)

\* The registered handlers of a phase that apply to the request.
MatchedIn(mode) ==
  {d \in AllDecls :
     /\ d.id \in registeredRoutes
     /\ d.mode = mode
     /\ MethodKey(d.method) \in {method, "any"}
     /\ LeadsPath(d)}

EventIdx == 1..Len(events)

IsInvoke(i, mode) == events[i].e = "invoke" /\ events[i].mode = mode

IsSettle(i, mode) == events[i].e = "settle" /\ events[i].mode = mode

\* The callback cb was invoked in the phase and its result had settled
\* before event j.
SettledBefore(cb, mode, j) ==
  \E k \in 1..(j - 1) :
    /\ events[k].cb = cb
    /\ IsSettle(k, mode)
    /\ \E i \in 1..(k - 1) : events[i].cb = cb /\ IsInvoke(i, mode)

TruthyKinds == {"string", "object", "HTTPResult"}

Threw(i) ==
  /\ events[i].e = "settle"
  /\ events[i].mode \in {"prefix", "handler", "postfix"}
  /\ events[i].b.outcome = "throw"

ShortCircuited(i) ==
  /\ events[i].e = "settle"
  /\ events[i].mode \in {"prefix", "postfix"}
  /\ events[i].b.outcome = "return"
  /\ events[i].b.value \in TruthyKinds

\* No handler threw or short-circuited before event j.
CleanBefore(j) == \A i \in 1..(j - 1) : ~Threw(i) /\ ~ShortCircuited(i)

PhaseRank(mode) ==
  CASE mode = "prefix" -> 1
    [] mode = "handler" -> 2
    [] mode = "postfix" -> 3
    [] OTHER -> 4

\* The handlers of the phase that the request is to run.
DueIn(mode) ==
  IF mode = "handler"
  THEN {handler.list[i].handler : i \in 1..Len(handler.list)}
  ELSE {d.id : d \in MatchedIn(mode)}

\* C1: in a request whose main handler is resolved and in which no handler
\* throws or short-circuits, every matched prefix handler has settled before
\* the main handler is invoked, the main handler has settled before any
\* postfix handler is invoked, and every postfix handler has settled before
\* any monitor is invoked.
C1_PhasesInSequence ==
  \A j \in EventIdx :
    (events[j].e = "invoke" /\ handler.found /\ CleanBefore(j)) =>
      \A mode \in {"prefix", "handler", "postfix"} :
        PhaseRank(mode) < PhaseRank(events[j].mode) =>
          \A cb \in DueIn(mode) : SettledBefore(cb, mode, j)

C1_Witness ==
  /\ pc = "sent"
  /\ handler.found
  /\ CleanBefore(Len(events) + 1)
  /\ \A mode \in {"prefix", "handler", "postfix", "monitor"} :
       \E k \in EventIdx : IsSettle(k, mode)

\* C2: in the prefix, postfix and monitor phases the handlers are invoked
\* one at a time, by ascending priority (an undeclared priority counts as
\* 2): a handler is invoked only when every earlier invocation has settled
\* and every matched handler of the phase with a strictly lower priority
\* value has settled.
C2_AscendingPriority ==
  \A j \in EventIdx :
    (events[j].e = "invoke" /\ events[j].mode \in {"prefix", "postfix", "monitor"}) =>
      /\ \A i \in EventIdx :
           (i < j /\ events[i].e = "invoke") =>
             SettledBefore(events[i].cb, events[i].mode, j)
      /\ \A d \in MatchedIn(events[j].mode) :
           DeclPriority(d) < DeclPriority(DeclOf(events[j].cb)) =>
             SettledBefore(d.id, events[j].mode, j)

\* HIGHEST cors (any, '/') runs before a default-priority prefix that the
\* lookup finds first, and a default-priority monitor before a LOW one.
C2_Witness ==
  \/ \E i \in EventIdx, j \in EventIdx :
       /\ i < j
       /\ IsInvoke(i, "prefix") /\ events[i].cb = "cors"
       /\ IsInvoke(j, "prefix") /\ events[j].cb = "preA"
  \/ \E i \in EventIdx, j \in EventIdx :
       /\ i < j
       /\ IsInvoke(i, "monitor") /\ events[i].cb = "monAny"
       /\ IsInvoke(j, "monitor") /\ events[j].cb = "monA"

\* The place of the callback in the order of the registrations.
RegIndex(cb) == CHOOSE i \in 1..Len(registrationOrder) : registrationOrder[i] = cb

\* Events i and j are invocations, i first, of two handlers of one phase
\* that have the same priority.
SamePriorityPair(i, j) ==
  /\ i < j
  /\ events[i].e = "invoke" /\ events[j].e = "invoke"
  /\ events[i].mode = events[j].mode
  /\ events[i].mode \in {"prefix", "postfix", "monitor"}
  /\ DeclPriority(DeclOf(events[i].cb)) = DeclPriority(DeclOf(events[j].cb))

\* The root of the request's method is searched before the root `any`.
RootRank(d) == IF MethodKey(d.method) = "any" THEN 1 ELSE 0

\* The lookup collects the handler declared by a before the one declared by
\* b: the method's root before `any`, a node before the nodes below it, and
\* on one node the order of the registrations.
CollectedBefore(a, b) ==
  \/ RootRank(a) < RootRank(b)
  \/ /\ RootRank(a) = RootRank(b)
     /\ \/ Len(DeclParts(a)) < Len(DeclParts(b))
        \/ /\ Len(DeclParts(a)) = Len(DeclParts(b))
           /\ RegIndex(a.id) < RegIndex(b.id)

\* C3 as stated: in one phase of one request, the matched handlers of one
\* priority are invoked in the order of their registration, whatever node
\* or method root they were registered at.
C3_Original ==
  \A j \in EventIdx : \A i \in 1..(j - 1) :
    SamePriorityPair(i, j) => RegIndex(events[i].cb) < RegIndex(events[j].cb)

\* C3, amended: in one phase of one request, the matched handlers of one
\* priority are invoked in the order in which the lookup collects them: the
\* handlers under the root of the request's method before those under
\* `any`, the handlers of a node before those of the nodes below it, and
\* the handlers of one node in the order of their registration.
C3_LookupOrder ==
  \A j \in EventIdx : \A i \in 1..(j - 1) :
    SamePriorityPair(i, j) => CollectedBefore(DeclOf(events[i].cb), DeclOf(events[j].cb))

\* Two prefix handlers of one node run in the order of their registration,
\* after a handler of the node above that was registered after them.
C3_Witness ==
  /\ pc = "sent"
  /\ \E i \in EventIdx, j \in EventIdx, k \in EventIdx :
       /\ SamePriorityPair(i, j) /\ SamePriorityPair(j, k)
       /\ events[i].cb = "preRoot"
       /\ {events[j].cb, events[k].cb} = {"preA", "preB"}
       /\ RegIndex(events[j].cb) < RegIndex(events[k].cb)
       /\ RegIndex(events[k].cb) < RegIndex("preRoot")
\* The response the listener hands to handleResult.
Transmitted == heap[requestContext.response]

\* The headers that the handlers settled up to event k have set on the
\* response of the context are among the headers h.
HeadersKept(k, h) ==
  \A i \in 1..k :
    (events[i].e = "settle" /\ events[i].mode # "monitor") =>
      /\ events[i].b.effect = "addHeader" =>
           (HeaderOf(events[i].cb) \in DOMAIN h /\ h[HeaderOf(events[i].cb)] = "1")
      /\ events[i].b.effect = "mutate" => "x-mutated" \in DOMAIN h

\* Every matched monitor has been invoked and has settled.
MonitorsRan ==
  \A d \in MatchedIn("monitor") : SettledBefore(d.id, "monitor", Len(events) + 1)

\* C4: once a prefix handler has returned a truthy value, the request
\* invokes nothing but monitors; the response transmitted is the returned
\* HTTPResult itself, or has status 200 and the returned value as body
\* (a string as it is, an object serialized); it carries the headers set
\* on the response of the context up to then; and every matched monitor
\* has run before the response is written.
C4_PrefixShortCircuit ==
  \A k \in EventIdx :
    (ShortCircuited(k) /\ events[k].mode = "prefix") =>
      /\ \A j \in (k + 1)..Len(events) : events[j].mode = "monitor"
      /\ pc = "sent" =>
           LET v == events[k].value
           IN /\ IF v.t = "HTTPResult"
                 THEN /\ requestContext.response = v.ref
                      /\ Transmitted.status = events[k].b.status
                      /\ Transmitted.body = events[k].cb
                 ELSE /\ Transmitted.status = 200
                      /\ Transmitted.body =
                           IF v.t = "string" THEN v.str ELSE JSONStringify(v)
              /\ HeadersKept(k, Transmitted.headers)
              /\ Len(wire) = 1
              /\ wire[1].status = Transmitted.status
              /\ HeadersKept(k, wire[1].headers)
              /\ ~isHeadRequest => wire[1].body = Transmitted.body
              /\ MonitorsRan

\* cors sets a header, preA sets another and returns a string: the main
\* handler is registered and is not invoked, a monitor runs, and the
\* response written has both headers.
C4_Witness ==
  /\ pc = "sent"
  /\ "main" \in registeredRoutes
  /\ \E i \in EventIdx, k \in EventIdx, m \in EventIdx :
       /\ i < k /\ k < m
       /\ IsSettle(i, "prefix") /\ events[i].b.effect = "addHeader"
       /\ ShortCircuited(k) /\ events[k].mode = "prefix"
       /\ events[k].b.effect = "addHeader"
       /\ IsSettle(m, "monitor")
  /\ {HeaderOf("cors"), HeaderOf("preA")} \subseteq DOMAIN wire[1].headers
  /\ wire[1].body = "preA"
\* The invocations of the monitor cb in the request.
MonitorCalls(cb) == {i \in EventIdx : IsInvoke(i, "monitor") /\ events[i].cb = cb}

\* C5: whatever the outcome of the earlier phases (unmatched request,
\* short-circuit, normal completion, exception), no monitor that matches
\* the method and path of the request is invoked twice, and when the
\* listener is through with the request each of them has been invoked
\* exactly once.
C5_MonitorsOnce ==
  \A d \in MatchedIn("monitor") :
    /\ Cardinality(MonitorCalls(d.id)) <= 1
    /\ pc \in {"sent", "rejected"} => Cardinality(MonitorCalls(d.id)) = 1

\* What is written for the response res: its status, its headers with its
\* content type, and (but for a HEAD request) its body.
Writes(w, res) ==
  /\ w.status = res.status
  /\ DOMAIN w.headers = (DOMAIN res.headers) \cup {"Content-Type"}
  /\ w.headers["Content-Type"] = res.contentType
  /\ \A n \in (DOMAIN res.headers) \ {"Content-Type"} : w.headers[n] = res.headers[n]
  /\ ~isHeadRequest => w.body = res.body

\* C6: from the beginning of the monitor phase on, the context keeps its
\* response and no step changes the status, body, content type or headers
\* of that response; what is written at the end is that response.
C6_MonitorsSeeSnapshot ==
  [][(pc = "finally" \/ pc = "monitor") =>
       /\ requestContext'.response = requestContext.response
       /\ heap'[requestContext.response] = Transmitted
       /\ pc' = "sent" => (Len(wire') = 1 /\ Writes(wire'[1], Transmitted))]_vars

\* A monitor has set status 201, a body and a header on the response it
\* was given; the response written has status 200 and none of them.
C6_Witness ==
  /\ pc = "sent"
  /\ \E i \in EventIdx : IsSettle(i, "monitor") /\ events[i].b.effect = "mutate"
  /\ heap[monitorContext.response].status = 201
  /\ heap[monitorContext.response].body = "Mutated"
  /\ wire[1].status = 200
  /\ wire[1].body # "Mutated"
  /\ "x-mutated" \notin DOMAIN wire[1].headers

\* A monitor settles in this step.
MonitorSettles == pc = "monitor" /\ awaiting # <<>> /\ awaiting' = <<>>

\* The monitors were invoked by ascending priority.
MonitorsInOrder ==
  \A j \in EventIdx : \A i \in 1..(j - 1) :
    (IsInvoke(i, "monitor") /\ IsInvoke(j, "monitor")) =>
      DeclPriority(DeclOf(events[i].cb)) <= DeclPriority(DeclOf(events[j].cb))

\* C7: when a monitor settles, by a return or by a throw, the loop goes on
\* with the same remaining monitors, the error and the response of the
\* context stay as they are and nothing is written; the response is
\* written only when every matched monitor has run, in priority order.
C7_MonitorResultDiscarded ==
  [][/\ MonitorSettles =>
          /\ pc' = "monitor"
          /\ handlers' = handlers
          /\ requestError' = requestError
          /\ requestContext' = requestContext
          /\ heap'[requestContext.response] = Transmitted
          /\ wire' = wire
     /\ (pc = "monitor" /\ pc' = "sent") => (MonitorsRan /\ MonitorsInOrder)]_vars

\* The first monitor threw, the second was invoked after that and returned
\* a string; the context has no error and the response of the main handler
\* was written.
C7_Witness ==
  /\ pc = "sent"
  /\ \E i \in EventIdx, j \in EventIdx, k \in EventIdx :
       /\ i < j /\ j < k
       /\ IsSettle(i, "monitor") /\ events[i].b.outcome = "throw"
       /\ IsInvoke(j, "monitor")
       /\ IsSettle(k, "monitor") /\ events[k].value.t = "string"
  /\ requestContext.error = Undefined
  /\ \E i \in EventIdx : IsSettle(i, "handler") /\ events[i].value.t = "string"
  /\ wire[1].status = 200
  /\ wire[1].body = "main"

\* The body made from the thrown value v: its message if it has one, else
\* the value, a string as it is and anything else serialized.
ErrorBody(v) ==
  LET from == IF v.t = "Error" /\ v.message.t \notin {"undefined", "null"}
              THEN v.message ELSE v
  IN CASE from.t = "string" -> from.str
       [] from.t = "undefined" -> ""
       [] OTHER -> JSONStringify(from)

\* The throw of event k was caught once: nothing but monitors follows, the
\* thrown value is the error of the context of every monitor invoked, and
\* the headers set before the throw are written.
CaughtOnce(k) ==
  /\ \A j \in (k + 1)..Len(events) : events[j].mode = "monitor"
  /\ requestError = events[k].value
  /\ (\E j \in EventIdx : IsInvoke(j, "monitor")) =>
       (requestContext.error = events[k].value /\ monitorContext.error = events[k].value)
  /\ pc = "sent" =>
       /\ requestContext.error = events[k].value
       /\ HeadersKept(k, Transmitted.headers)
       /\ Len(wire) = 1
       /\ HeadersKept(k, wire[1].headers)

\* The response written has status 500 and the body made from the value
\* thrown at event k.
Status500(k) ==
  pc = "sent" =>
    /\ Transmitted.status = 500
    /\ Transmitted.body = ErrorBody(events[k].value)
    /\ wire[1].status = 500
    /\ ~isHeadRequest => wire[1].body = ErrorBody(events[k].value)

\* C8 as stated: any exception of a prefix, main or postfix handler is
\* caught once and answered with status 500 and the error's message (or
\* the error itself) as body.
C8_Original == \A k \in EventIdx : Threw(k) => (CaughtOnce(k) /\ Status500(k))

\* C8, amended: any exception of a prefix, main or postfix handler is
\* caught once -- no further prefix, main or postfix handler runs, the
\* headers set before the throw are kept, the thrown value is the error of
\* the context before any monitor runs -- and, unless an HTTPResult was
\* thrown, the response has status 500 and the body made from the error's
\* message, or from the thrown value when it has no message.
C8_CaughtOnce ==
  \A k \in EventIdx :
    Threw(k) =>
      /\ CaughtOnce(k)
      /\ events[k].value.t # "HTTPResult" => Status500(k)

\* A postfix handler set a header and threw an Error after the main handler
\* had answered: status 500 and the message are written with the headers of
\* both, and a monitor ran with the error in its context.
C8_Witness ==
  /\ pc = "sent"
  /\ \E i \in EventIdx, k \in EventIdx, m \in EventIdx :
       /\ i < k /\ k < m
       /\ IsSettle(i, "handler") /\ events[i].b.effect = "addHeader"
       /\ Threw(k) /\ events[k].mode = "postfix" /\ events[k].value = Err(Str("boom"))
       /\ IsInvoke(m, "monitor")
  /\ monitorContext.error = Err(Str("boom"))
  /\ wire[1].status = 500
  /\ wire[1].body = "boom"
  /\ {HeaderOf("main"), HeaderOf("postA")} \subseteq DOMAIN wire[1].headers

\* C9: when a handler throws an HTTPResult, the response transmitted is
\* that very object, with its own status and body and, added to it, the
\* headers set on the response of the context before the throw.
C9_ThrownResultTransmitted ==
  \A k \in EventIdx :
    (Threw(k) /\ events[k].value.t = "HTTPResult" /\ pc = "sent") =>
      /\ requestContext.response = events[k].value.ref
      /\ Transmitted.status = events[k].b.status
      /\ Transmitted.body = events[k].cb
      /\ HeadersKept(k, Transmitted.headers)
      /\ wire[1].status = events[k].b.status
      /\ ~isHeadRequest => wire[1].body = events[k].cb
      /\ HeadersKept(k, wire[1].headers)

\* The main handler threw an HTTPResult of status 400 after a prefix
\* handler had set a header: 400 is written, with the header.
C9_Witness ==
  /\ pc = "sent"
  /\ \E i \in EventIdx, k \in EventIdx :
       /\ i < k
       /\ IsSettle(i, "prefix") /\ events[i].b.effect = "addHeader"
       /\ events[i].cb = "preA"
       /\ Threw(k) /\ events[k].mode = "handler" /\ events[k].value.t = "HTTPResult"
  /\ wire[1].status = 400
  /\ wire[1].body = "main"
  /\ HeaderOf("preA") \in DOMAIN wire[1].headers

\* The request is not an OPTIONS one and no main handler was found for it.
Unmatched == pc # "idle" /\ method # "options" /\ ~handler.found

\* C10: a request that is not an OPTIONS one and for which no main handler
\* is found, the retry of HEAD as GET included, invokes nothing but
\* monitors, has no error, and is answered with the default response:
\* status 404, body "Not Found".
C10_UnmatchedIs404 ==
  Unmatched =>
    /\ \A j \in EventIdx : events[j].mode = "monitor"
    /\ requestError = Undefined
    /\ requestContext.error = Undefined
    /\ requestContext.response = 1
    /\ Transmitted = NewHTTPResult(404, Str("Not Found"), <<>>)
    /\ pc = "sent" =>
         /\ Len(wire) = 1
         /\ wire[1].status = 404
         /\ ~isHeadRequest => wire[1].body = "Not Found"

\* The main handlers registered under the method root m for the very path
\* of the request.
MainsFor(m) ==
  {d \in AllDecls :
     /\ d.id \in registeredRoutes
     /\ d.mode = "handler"
     /\ MethodKey(d.method) = m
     /\ DeclParts(d) = path}

\* The roots that the lookup of a HEAD request goes through, in order.
HeadRoots == <<"head", "any", "get">>

\* The main handler settled at event k by returning, and no postfix handler
\* returned a value or threw after it.
MainStands(k) ==
  /\ IsSettle(k, "handler")
  /\ events[k].b.outcome = "return"
  /\ \A j \in (k + 1)..Len(events) : ~Threw(j) /\ ~ShortCircuited(j)

\* C11: a HEAD request resolves to the main handler of its path under the
\* root `head`, else under `any`, else under `get`; the handler is invoked
\* at most once, and once when it stands as the answer; what is written
\* then has no body, the status of the handler's result (that of the
\* HTTPResult it returned, else 200) and the headers set up to then.
C11_HeadFallsBackToGet ==
  (method = "head" /\ pc # "idle") =>
    /\ handler.found <=> \E r \in 1..3 : MainsFor(HeadRoots[r]) # {}
    /\ \A r \in 1..3 :
         (MainsFor(HeadRoots[r]) # {} /\ \A q \in 1..(r - 1) : MainsFor(HeadRoots[q]) = {})
           => DeclOf(handler.list[1].handler) \in MainsFor(HeadRoots[r])
    /\ Cardinality({j \in EventIdx : IsInvoke(j, "handler")}) <= 1
    /\ \A j \in EventIdx :
         events[j].mode = "handler" => events[j].cb = handler.list[1].handler
    /\ \A k \in EventIdx :
         (pc = "sent" /\ MainStands(k)) =>
           /\ Len(wire) = 1
           /\ wire[1].sent = "head"
           /\ wire[1].body = ""
           /\ wire[1].status =
                IF events[k].b.value = "HTTPResult" THEN events[k].b.status ELSE 200
           /\ HeadersKept(k, wire[1].headers)

\* HEAD /a with the handler of GET /a alone: it returned a string after
\* setting a header, and status 200 and the header were written, no body.
C11_Witness ==
  /\ pc = "sent"
  /\ method = "head"
  /\ MainsFor("head") = {} /\ MainsFor("any") = {} /\ MainsFor("get") # {}
  /\ \E k \in EventIdx :
       /\ MainStands(k)
       /\ events[k].cb = "main"
       /\ events[k].b.effect = "addHeader"
       /\ Transmitted.body = "main"
  /\ wire[1].status = 200
  /\ wire[1].body = ""
  /\ HeaderOf("main") \in DOMAIN wire[1].headers

\* The listener is through with the request: it has written the response,
\* or it was left by an exception.
Over == pc \in {"sent", "rejected"}

\* No prefix or postfix handler has returned a truthy value or thrown.
NoneDecided == \A i \in EventIdx : ~Threw(i) /\ ~ShortCircuited(i)

\* No handler has changed the response of the context in place.
NoneMutated == \A i \in EventIdx : events[i].b.effect # "mutate"

\* C12: an OPTIONS request for which no main handler is found invokes no
\* main and no postfix handler; unless one of them returns a truthy value
\* or throws, every matched prefix handler has run when the request is
\* over, no error is set, the response of the context is still the default
\* object, and it is written: with status 404 and body "Not Found" unless a
\* prefix handler changed them in place.
C12_OptionsWithoutHandler ==
  (method = "options" /\ pc # "idle" /\ ~handler.found) =>
    /\ \A j \in EventIdx : events[j].mode \in {"prefix", "monitor"}
    /\ NoneDecided =>
         /\ requestError = Undefined
         /\ requestContext.response = 1
         /\ NoneMutated => (Transmitted.status = 404 /\ Transmitted.body = "Not Found")
         /\ Over =>
              /\ \A d \in MatchedIn("prefix") :
                   SettledBefore(d.id, "prefix", Len(events) + 1)
              /\ Len(wire) = 1
              /\ Writes(wire[1], Transmitted)

\* The body that HTTPResult makes of the value v.
BodyOf(v) ==
  CASE v.t = "string" -> v.str
    [] v.t = "undefined" -> ""
    [] OTHER -> JSONStringify(v)

\* The response of the context is the one made from the value returned at
\* event k: the HTTPResult returned, or one of status 200 with the value
\* as body (a falsy value giving the empty body).
MadeFrom(k) ==
  LET v == events[k].value
  IN IF v.t = "HTTPResult"
     THEN /\ requestContext.response = v.ref
          /\ Transmitted.status = events[k].b.status
          /\ Transmitted.body = events[k].cb
     ELSE /\ Transmitted.status = 200
          /\ Transmitted.body = (IF Truthy(v) THEN BodyOf(v) ELSE "")
          /\ Transmitted.contentType =
               (IF v.t = "object" THEN "application/json" ELSE "text/plain")

\* C13: when the main handler has returned, the response of the context is
\* the HTTPResult it returned, with that object's status, or else a new
\* object of status 200 whose body is the returned string, the returned
\* object serialized, or empty for a falsy result; it carries the headers
\* set on the response of the context up to then.
C13_MainResultBecomesResponse ==
  \A k \in EventIdx :
    (k = Len(events) /\ IsSettle(k, "handler") /\ events[k].b.outcome = "return"
       /\ pc = "postfix") =>
      /\ MadeFrom(k)
      /\ ~Transmitted.stream
      /\ events[k].value.t # "HTTPResult" =>
           (requestContext.response = Len(heap) /\ requestContext.response # 1)
      /\ HeadersKept(k, Transmitted.headers)

\* The main handler has set status 201 on the default response and has
\* returned the empty string, after a prefix handler had set a header: the
\* response is a new one of status 200 with an empty body and that header.
C13_Witness ==
  /\ pc = "postfix"
  /\ Len(events) > 2
  /\ IsSettle(Len(events), "handler")
  /\ events[Len(events)].b.effect = "mutate"
  /\ events[Len(events)].value = Str("")
  /\ \E i \in EventIdx : IsSettle(i, "prefix") /\ events[i].b.effect = "addHeader"
                           /\ HeaderOf(events[i].cb) \in DOMAIN Transmitted.headers
  /\ heap[1].status = 201
  /\ Transmitted.status = 200
  /\ Transmitted.body = ""

\* The last settlement of the main handler before event k, or 0.
MainSettledBefore(k) ==
  IF \E i \in 1..(k - 1) : IsSettle(i, "handler")
  THEN CHOOSE i \in 1..(k - 1) : IsSettle(i, "handler")
  ELSE 0

\* The postfix handlers settled so far have all returned nothing, and none
\* has changed the response in place.
PostfixesSilent ==
  \A i \in EventIdx :
    IsSettle(i, "postfix") =>
      /\ events[i].b.outcome = "return"
      /\ events[i].b.value \notin TruthyKinds
      /\ events[i].b.effect # "mutate"

\* C14: a postfix handler that returns a truthy value ends the request but
\* for the monitors, and the response written is the one made from that
\* value, with every header set before by prefix, main and postfix
\* handlers; as long as the postfix handlers return nothing, the response
\* stays the one made from the result of the main handler.
C14_PostfixOverride ==
  /\ \A k \in EventIdx :
       (ShortCircuited(k) /\ events[k].mode = "postfix") =>
         /\ \A j \in (k + 1)..Len(events) : events[j].mode = "monitor"
         /\ MadeFrom(k)
         /\ HeadersKept(k, Transmitted.headers)
         /\ pc = "sent" =>
              /\ Len(wire) = 1
              /\ Writes(wire[1], Transmitted)
              /\ HeadersKept(k, wire[1].headers)
  /\ (PostfixesSilent /\ MainSettledBefore(Len(events) + 1) # 0
        /\ events[MainSettledBefore(Len(events) + 1)].b.outcome = "return") =>
       /\ MadeFrom(MainSettledBefore(Len(events) + 1))
       /\ pc = "sent" => Writes(wire[1], Transmitted)

\* The main handler returned a string, the postfix handler returned an
\* HTTPResult of status 201, and each had set a header after a prefix
\* handler had: status 201, the postfix's body and the three headers are
\* written.
C14_Witness ==
  /\ pc = "sent"
  /\ \E i \in EventIdx, m \in EventIdx, k \in EventIdx :
       /\ i < m /\ m < k
       /\ IsSettle(i, "prefix") /\ events[i].b.effect = "addHeader"
       /\ IsSettle(m, "handler") /\ events[m].b.effect = "addHeader"
       /\ events[m].b.value = "string"
       /\ ShortCircuited(k) /\ events[k].mode = "postfix"
       /\ events[k].b.effect = "addHeader"
       /\ {HeaderOf(events[i].cb), HeaderOf(events[m].cb), HeaderOf(events[k].cb)}
            \subseteq DOMAIN wire[1].headers
       /\ wire[1].body = events[k].cb
       /\ wire[1].body # events[m].cb

(***************************************************************************)
(* What a pattern says, apart from the way the trie is searched.           *)
(***************************************************************************)
IsCatchAll(part) == StartsWith(part, <<":", ":">>)

\* A dynamic segment of the patterns declared is one parameter and nothing
\* else: it accepts any segment.
IsDynamic(part) == HasColon(part) /\ ~IsCatchAll(part)

IsStaticPattern(parts) == \A i \in 1..Len(parts) : ~HasColon(parts[i])

RECURSIVE PatternMatches(_, _)
\* The pattern matches the whole of the segments: a static segment matches
\* itself, a dynamic one any segment, and a catch-all one or more segments
\* followed by its literal suffix.
PatternMatches(parts, segs) ==
  IF parts = <<>> THEN segs = <<>>
  ELSE IF IsCatchAll(parts[1])
  THEN /\ Len(segs) >= Len(parts)
       /\ SubSeq(segs, Len(segs) - Len(parts) + 2, Len(segs)) = Tail(parts)
  ELSE /\ segs # <<>>
       /\ IsDynamic(parts[1]) \/ parts[1] = segs[1]
       /\ PatternMatches(Tail(parts), Tail(segs))

\* The main handlers registered under the method root m whose pattern
\* matches the path of the request.
Candidates(m) ==
  {d \in PatternDecls :
     /\ d.id \in registeredRoutes
     /\ d.mode = "handler"
     /\ MethodKey(d.method) = m
     /\ PatternMatches(DeclParts(d), path)}

\* The handler that the main-handler lookup of the request has found.
Resolved == CHOOSE d \in PatternDecls : d.id = handler.list[1].handler

\* C15 as stated: a registered static pattern that the path equals, under
\* a root that applies to the method of the request, is the pattern of the
\* handler found.
C15_Original ==
  \A d \in Candidates(method) \cup Candidates("any") :
    (pc # "idle" /\ IsStaticPattern(DeclParts(d))) =>
      /\ handler.found
      /\ DeclParts(Resolved) = DeclParts(d)

\* C15: a registered static pattern that the path equals is the pattern of
\* the handler found when it is registered under the root of the request's
\* method, whatever dynamic and catch-all patterns of that root match the
\* path too; registered under `any`, it is the one found when no pattern
\* of the root of the request's method matches the path.
C15_StaticPreferred ==
  pc # "idle" =>
    /\ \A d \in Candidates(method) :
         IsStaticPattern(DeclParts(d)) => (handler.found /\ Resolved = d)
    /\ \A d \in Candidates("any") :
         (IsStaticPattern(DeclParts(d)) /\ Candidates(method) = {}) =>
           (handler.found /\ Resolved = d)

\* GET /a/end with /:id/end, /::rest and /a/end registered in this order:
\* the handler of /a/end is invoked.
C15_Witness ==
  /\ pc = "handler"
  /\ registrationOrder = <<"byId", "rest", "static">>
  /\ Cardinality(Candidates("get")) = 3
  /\ awaiting # <<>>
  /\ awaiting[1].handler = "static"

\* Where the lookup tries the branch of the pattern among the branches of
\* the root node: the static child, then the dynamic children in the order
\* of their registration, then the catch-all branches in that order.  (The
\* patterns declared part ways at their first segment.)
BranchRank(d) ==
  LET first == DeclParts(d)[1]
  IN IF IsCatchAll(first) THEN 200 + RegIndex(d.id)
     ELSE IF IsDynamic(first) THEN 100 + RegIndex(d.id)
     ELSE 0

\* The candidate that comes first in the order of the lookup.
FirstOf(cands) == CHOOSE d \in cands : \A o \in cands : BranchRank(d) <= BranchRank(o)

\* C16: the single lookup of the main handler finds, among the patterns of
\* a root that match the whole path, the one whose branch comes first: the
\* static child, else the first dynamic child registered, else the first
\* catch-all branch registered, a branch that accepts the first segment
\* and does not match the rest being passed over; and it finds nothing,
\* without an error, when no pattern matches.
C16_BranchOrder ==
  pc # "idle" =>
    LET own == Candidates(method)
        any == Candidates("any")
    IN /\ own # {} => (handler.found /\ Resolved = FirstOf(own))
       /\ (own = {} /\ any # {}) => (handler.found /\ Resolved = FirstOf(any))
       /\ (own = {} /\ any = {}) => (~handler.found /\ requestError = Undefined)

RECURSIVE Slashed(_)
\* The segments, one or more, with a '/' between them.
Slashed(segs) ==
  IF Len(segs) = 1 THEN segs[1] ELSE segs[1] \o <<"/">> \o Slashed(Tail(segs))

\* The catch-all branches of the root of the request's method.
RootBranches ==
  IF ObjHas(roots["handler"], method)
  THEN ObjGet(roots["handler"], method).catchAllRoutes
  ELSE <<>>

\* What the catch-all loop finds for the path of the request at a node that
\* has the branch alone.
BranchAlone(branch) ==
  findCatchAllRoutes(path, 0, [NewRouteLevel EXCEPT !.catchAllRoutes = <<branch>>],
                     <<>>, NoParameters, FALSE, 1)

\* C17: a catch-all branch of parameter x and suffix S matches the path
\* exactly when the path has at least |S| + 1 segments and ends with S; x
\* is then bound to the segments before the suffix joined with '/', at
\* least one of them.  So it is for each branch taken alone and for the
\* handler that the lookup of the request resolves to.
C17_CatchAllMatch ==
  pc # "idle" =>
    /\ \A k \in 1..Len(RootBranches) :
         LET branch == RootBranches[k]
             S == branch.suffix
             fits == /\ Len(path) >= Len(S) + 1
                     /\ SubSeq(path, Len(path) - Len(S) + 1, Len(path)) = S
             found == BranchAlone(branch)
         IN /\ Len(found) > 0 <=> fits
            /\ fits =>
                 /\ DOMAIN found[1].parameters = {branch.paramName}
                 /\ found[1].parameters[branch.paramName] =
                      Slashed(SubSeq(path, 1, Len(path) - Len(S)))
                 /\ found[1].parameters[branch.paramName] # <<>>
    /\ (handler.found /\ IsCatchAll(DeclParts(Resolved)[1])) =>
         LET parts == DeclParts(Resolved)
             x == SubSeq(parts[1], 3, Len(parts[1]))
         IN /\ PatternMatches(parts, path)
            /\ handler.list[1].parameters =
                 SetParameter(NoParameters, x,
                              Slashed(SubSeq(path, 1, Len(path) - Len(parts) + 1)))
            /\ pc = "handler" => requestContext.routeParameters = handler.list[1].parameters

\* GET /a/b/c/end with /::x/end registered: its handler is invoked with
\* x = "a/b/c".
C17_Witness ==
  /\ pc = "handler"
  /\ awaiting # <<>>
  /\ awaiting[1].handler = "upToEnd"
  /\ Len(path) = 4
  /\ requestContext.routeParameters[<<"x">>] = <<"a", "/", "b", "/", "c">>

\* The monitors have just been looked up: none has been invoked yet.
MonitorsLookedUp ==
  /\ pc = "monitor"
  /\ awaiting = <<>>
  /\ \A i \in EventIdx : events[i].mode # "monitor"

\* The root under which the callback is registered.
RootOf(cb) == MethodKey(DeclOf(cb).method)

\* The callbacks of the handlers that the loop has still to invoke.
Pending == {handlers[i].handler : i \in 1..Len(handlers)}

\* C18 as stated: in the single lookup of the main handler and in the multi
\* lookup of the monitors alike, no handler of the root `any` is part of
\* the result when the root of the request's method has yielded one.
C18_Original ==
  /\ (pc # "idle" /\ handler.found /\ MainsFor(method) # {}) =>
       RootOf(handler.list[1].handler) # "any"
  /\ (MonitorsLookedUp /\ \E d \in MatchedIn("monitor") : MethodKey(d.method) = method) =>
       \A cb \in Pending : RootOf(cb) # "any"

\* C18: the single lookup of the main handler returns a handler of the
\* root `any` only when the root of the request's method has none for the
\* path; the multi lookup of the monitors returns the matching handlers of
\* the root of the method and those of the root `any` together.
C18_AnyRoot ==
  /\ (pc # "idle" /\ handler.found /\ MainsFor(method) # {}) =>
       RootOf(handler.list[1].handler) # "any"
  /\ (pc # "idle" /\ MainsFor(method) = {} /\ MainsFor("any") # {}) =>
       (handler.found /\ RootOf(handler.list[1].handler) = "any")
  /\ MonitorsLookedUp =>
       /\ Pending = {d.id : d \in MatchedIn("monitor")}
       /\ Len(handlers) = Cardinality(MatchedIn("monitor"))

\* GET /a with main handlers and monitors under `get` and under `any`: the
\* main handler found is the one of `get`, the monitors found are both.
C18_Witness ==
  /\ MonitorsLookedUp
  /\ method = "get"
  /\ {"main", "mainAny", "monA", "monAny"} \subseteq registeredRoutes
  /\ handler.found
  /\ handler.list[1].handler = "main"
  /\ Pending = {"monA", "monAny"}

\* C19: the multi lookup of a phase returns the handler of every pattern
\* registered under the root of the request's method or under `any` that
\* matches a leading run of the segments of the path, the pattern '/'
\* among them for every path: so for the prefix handlers once the request
\* is received, and for the monitors once the finally clause is entered.
C19_MultiCollectsAll ==
  /\ (pc = "prefix" /\ events = <<>> /\ awaiting = <<>>) =>
       Pending = {d.id : d \in MatchedIn("prefix")}
  /\ (MonitorsLookedUp \/ pc = "rejected") =>
       Pending = {d.id : d \in MatchedIn("monitor")}

\* The message of the Error that the registration of the malformed
\* pattern is to throw.
Refusal(id) ==
  CASE id = "afterCatchAll" -> "Dynamic segments after catch-all are not supported"
    [] id = "twoCatchAll" -> "Dynamic segments after catch-all are not supported"
    [] id = "noName" -> "Catch-all parameter must have a name"
    [] id = "twoColons" -> "Invalid URL parameter"
    [] id = "badChar" -> "Invalid character in URL"

MalformedIds == {d.id : d \in MalformedDecls}

RECURSIVE HandlersBelow(_)
\* The callbacks attached to the node and to the nodes below it.
HandlersBelow(level) ==
  {level.handlers[i].callback : i \in 1..Len(level.handlers)}
    \cup UNION {HandlersBelow(level.staticRoutes[i].val) : i \in 1..Len(level.staticRoutes)}
    \cup UNION {HandlersBelow(level.dynamicRoutes[i].val.sub) : i \in 1..Len(level.dynamicRoutes)}
    \cup UNION {HandlersBelow(level.catchAllRoutes[i].level) : i \in 1..Len(level.catchAllRoutes)}

\* The callbacks that the routing table holds.
Routed ==
  UNION {UNION {HandlersBelow(roots[mode][i].val) : i \in 1..Len(roots[mode])} :
           mode \in Modes}

\* C20: the registration of a pattern with a ':' in a segment after a
\* catch-all segment, with a catch-all without a name, with a second ':'
\* in an open parameter name, or with a character that a dynamic segment
\* may not have, throws its Error in the call; the well-formed patterns
\* register without one; no handler of a refused pattern is in the routing
\* table, and no request fails or invokes one afterwards.
C20_MalformedRefused ==
  /\ \A id \in registeredRoutes :
       IF id \in MalformedIds
       THEN <<id, Refusal(id)>> \in registerErrors /\ id \notin Routed
       ELSE id \in Routed /\ \A e \in registerErrors : e[1] # id
  /\ requestError = Undefined
  /\ pc # "rejected"
  /\ \A j \in EventIdx : events[j].cb \notin MalformedIds

\* /a/:p:q and /a/:: were refused and left the node of 'a' behind; GET /a/b
\* walks through it and is answered 404.
C20_Witness ==
  /\ pc = "sent"
  /\ {"twoColons", "noName", "cors"} \subseteq registeredRoutes
  /\ <<"twoColons", "Invalid URL parameter">> \in registerErrors
  /\ <<"noName", "Catch-all parameter must have a name">> \in registerErrors
  /\ Len(path) = 2
  /\ ObjHas(ObjGet(roots["handler"], "get").staticRoutes, <<"a">>)
  /\ wire[1].status = 404
(***************************************************************************)
(* C21.  Unregistration.                                                   *)
(***************************************************************************)
LookupMethods == {"get", "post"}

LookupUrls == {LocRoot, LocAEnd, LocCEnd, LocABCEnd, LocConstructorEnd}

\* The results of a lookup without the callbacks in `gone`.
Without(list, gone) == SelectSeq(list, LAMBDA r : r.handler \notin gone)

\* What a step that registers nothing does to one lookup: the callbacks of
\* the ids it has removed are not returned, and the rest is as it was.
SameBut(before, after, gone) ==
  /\ after.thrown = before.thrown
  /\ \A i \in 1..Len(after.list) : after.list[i].handler \notin gone
  /\ before.isArray => after = [before EXCEPT !.list = Without(before.list, gone)]
  /\ (~before.isArray /\ Without(before.list, gone) = before.list) => after = before

\* C21: when unregisterHandler(id) has returned, no lookup in any mode, for
\* any method and path, single or collecting, returns the callback that was
\* registered under id; every lookup returns the other handlers as before;
\* unregistering an id that is not registered leaves the table as it was.
C21_UnregisterRemoves ==
  [][ registeredRoutes' \subseteq registeredRoutes =>
        LET gone == registeredRoutes \ registeredRoutes'
        IN /\ gone = {} => roots' = roots
           /\ \A mode \in Modes : \A m \in LookupMethods : \A url \in LookupUrls :
                \A multi \in BOOLEAN :
                  IF roots'[mode] = roots[mode]
                  THEN Without(getHandler(m, SplitPath(url), roots[mode], TRUE).list, gone)
                         = getHandler(m, SplitPath(url), roots[mode], TRUE).list
                  ELSE SameBut(getHandler(m, SplitPath(url), roots[mode], multi),
                               getHandler(m, SplitPath(url), roots'[mode], multi), gone) ]_vars

\* The handler of a catch-all branch has been unregistered, the handler of a
\* dynamic child's subtree is still registered, and GET /c/end is resolved
\* to it.
C21_Witness ==
  /\ ObjHas(roots["handler"], "get")
  /\ \E k \in 1..Len(ObjGet(roots["handler"], "get").catchAllRoutes) :
       ObjGet(roots["handler"], "get").catchAllRoutes[k].level.handlers = <<>>
  /\ "upToEnd" \notin registeredRoutes
  /\ "byId" \in registeredRoutes
  /\ getHandler("get", SplitPath(LocCEnd), roots["handler"], FALSE).list # <<>>
  /\ getHandler("get", SplitPath(LocCEnd), roots["handler"], FALSE).list[1].handler = "byId"
(***************************************************************************)
(* C22.  computeParameter.                                                 *)
(***************************************************************************)
RECURSIVE StageValue(_, _)
\* The value of stage k of the chain: the provider's value (k = 0), then
\* modifier k applied to the value of stage k - 1.
StageValue(param, k) ==
  IF k = 0 THEN Apply(param.provider[1], Undefined).value
  ELSE Apply(param.modifiers[k], StageValue(param, k - 1)).value

RECURSIVE StageThrows(_, _)
\* Some stage up to k throws.
StageThrows(param, k) ==
  IF k = 0 THEN Apply(param.provider[1], Undefined).threw
  ELSE \/ StageThrows(param, k - 1)
       \/ Apply(param.modifiers[k], StageValue(param, k - 1)).threw

Invocations(call) == {i \in 1..Len(call.trace) : call.trace[i].e = "invoke"}

\* C22: computeParameter resolves to undefined and invokes nothing when the
\* parameter is null or has no provider; otherwise it resolves to the fold
\* of the modifiers, from left to right, over the provider's value; each
\* modifier receives the context and the resolved value of the stage before
\* it, and is not started before that stage has resolved.
C22_ComputeParameterFolds ==
  \A c \in 1..Len(compute) :
    LET call == compute[c]
        param == call.param
    IN IF param.isNull \/ param.provider = <<>>
       THEN call.state = "resolved" /\ call.result = Undefined /\ call.trace = <<>>
       ELSE /\ call.state = "resolved" =>
                 /\ call.result = StageValue(param, Len(param.modifiers))
                 /\ ~StageThrows(param, Len(param.modifiers))
            /\ \A i \in 1..Len(call.trace) :
                 LET step == call.trace[i]
                 IN /\ step.context = call.context
                    /\ step.this = call.obj
                    /\ step.k > 0 =>
                         /\ step.previous = StageValue(param, step.k - 1)
                         /\ \E j \in 1..(i - 1) :
                              call.trace[j].e = "resolve" /\ call.trace[j].k = step.k - 1
                    /\ \A j \in 1..(i - 1) : call.trace[j].k <= step.k

\* Two calls have resolved; in one of them a modifier that follows a stage
\* returning a promise has made 3 out of 1 (doubled, then incremented).
C22_Witness ==
  /\ Len(compute) = 2
  /\ \E c \in 1..2 :
       /\ compute[c].state = "resolved"
       /\ compute[c].result = Num(3)
       /\ Len(compute[c].param.modifiers) = 2
  /\ \E c \in 1..2 : compute[c].state = "resolved" /\ compute[c].result = Num(4)
(***************************************************************************)
(* C23.  One controller instance per request.                              *)
(***************************************************************************)
\* The instances of class cls made for the context.
InstancesOf(cls, context) ==
  {i \in 1..Len(controllers.made) :
     controllers.made[i].cls = cls /\ controllers.made[i].context = context}

\* The invocations of the provider of computed property number p of cls
\* with the context.
ProviderCalls(cls, context, p) ==
  {c \in 1..Len(compute) :
     /\ compute[c].obj \in InstancesOf(cls, context)
     /\ \E g \in 1..Len(controllers.calls) : c = controllers.calls[g].first + p - 1
     /\ \E i \in 1..Len(compute[c].trace) :
          compute[c].trace[i].e = "invoke" /\ compute[c].trace[i].k = 0}

\* C23: within one request, for each controller class, at most one instance
\* is constructed and each provider of its computed properties is invoked at
\* most once, however the calls of GetControllerInstance on the context
\* interleave; every call resolves to the same instance.
C23_OneInstancePerRequest ==
  \A cls \in ControllerClasses : \A context \in Contexts :
    /\ Cardinality(InstancesOf(cls, context)) <= 1
    /\ \A p \in 1..Len(computed_props(cls)) :
         Cardinality(ProviderCalls(cls, context, p)) <= 1
    /\ \A g, h \in 1..Len(controllers.calls) :
         ( /\ controllers.calls[g].cls = cls /\ controllers.calls[h].cls = cls
           /\ controllers.calls[g].context = context /\ controllers.calls[h].context = context
           /\ controllers.calls[g].state = "resolved"
           /\ controllers.calls[h].state = "resolved" )
         => controllers.calls[g].instance = controllers.calls[h].instance
(***************************************************************************)
(* C24.  Concurrent requests.                                              *)
(***************************************************************************)
\* The value that a handler of the request has thrown, undefined if none.
OwnError ==
  IF \E i \in EventIdx : Threw(i)
  THEN events[CHOOSE i \in EventIdx : Threw(i)].value
  ELSE Undefined

\* The callback cb of the request has added its header to the response.
OwnHeader(cb) ==
  \E i \in EventIdx :
    /\ events[i].e = "settle"
    /\ events[i].cb = cb
    /\ events[i].mode # "monitor"
    /\ events[i].b.effect = "addHeader"

\* C24: with two requests dispatched concurrently and their suspensions
\* interleaved in every way, what the handlers of a request observe and what
\* is transmitted for it follow from that request alone: the route
\* parameters are those of its own path, the captured error is the value
\* its own handler threw, the status and the headers transmitted are those
\* its own handlers made, and the controller instances it is given were
\* made for its own context.
C24_RequestsIsolated ==
  /\ pc = "handler" =>
       /\ DOMAIN requestContext.routeParameters = {<<"i", "d">>}
       /\ requestContext.routeParameters[<<"i", "d">>] = path[1]
  /\ pc \in {"monitor", "sent"} =>
       /\ requestContext.error = OwnError
       /\ monitorContext.error = OwnError
  /\ pc = "sent" =>
       /\ Len(wire) = 1
       /\ wire[1].status = IF OwnError # Undefined THEN 500
                           ELSE IF ~handler.found THEN 404 ELSE 200
       /\ \A cb \in {"byId", "cors"} : HeaderOf(cb) \in DOMAIN wire[1].headers <=> OwnHeader(cb)
  /\ \A g \in 1..Len(controllers.calls) :
       /\ controllers.made[controllers.calls[g].instance].context = controllers.calls[g].context
       /\ \A h \in 1..Len(controllers.calls) :
            controllers.calls[g].context # controllers.calls[h].context =>
              controllers.calls[g].instance # controllers.calls[h].instance
  /\ \A entry \in controllers.cache : controllers.made[entry.instance].context = entry.context

\* Both requests have been answered, one with the 500 of its own handler's
\* throw, the other, for another path, with its own handler's header; each
\* was given its own controller instance, and the request that began second
\* asked for its instance before the first one did.
C24_Witness ==
  /\ pc = "sent" /\ parked.state[1] = "sent"
  /\ path # parked.state[3]
  /\ wire[1].status = 500 /\ parked.state[12][1].status = 200
  /\ HeaderOf("byId") \in DOMAIN parked.state[12][1].headers
  /\ Len(controllers.calls) = 2
  /\ controllers.calls[1].context = "ctx2"
  /\ \A g \in 1..2 : controllers.calls[g].state = "resolved"

(***************************************************************************)
(* C25.  On the upgrade path the protocol upgrade is performed only after  *)
(* the websocket-mode lookup has succeeded and every matched prefix        *)
(* handler has completed without returning a truthy value; the websocket   *)
(* handler is invoked only after the upgrade has completed, with           *)
(* context.connection populated and context.routeParameters set to its     *)
(* own parameters, and it is never invoked when the lookup fails or a      *)
(* prefix short-circuits.                                                  *)
(***************************************************************************)
IsUpgrade(i) == events[i].e = "upgrade"

MatchedPrefixes == SortByPriority(getMultiHandlers(method, path, roots["prefix"]))

UpgradeOnlyAfterPrefixes ==
  \A j \in 1..Len(events) :
    IsUpgrade(j) =>
      /\ handler.found
      /\ CleanBefore(j)
      /\ \A k \in 1..Len(MatchedPrefixes) :
           SettledBefore(MatchedPrefixes[k].handler, "prefix", j)

HandlerOnlyAfterUpgrade ==
  \A j \in 1..Len(events) :
    IsInvoke(j, "websocket") =>
      /\ \E i \in 1..(j - 1) : IsUpgrade(i)
      /\ upgrade.connection
      /\ events[j].cb = handler.list[1].handler
      /\ requestContext.routeParameters = handler.list[1].parameters

NeverWithoutUpgrade ==
  (pc # "idle" /\ (~handler.found \/ \E i \in 1..Len(events) : ShortCircuited(i)))
    => \A j \in 1..Len(events) : ~IsUpgrade(j) /\ events[j].mode # "websocket"

C25_UpgradeAfterLookupAndPrefixes ==
  /\ UpgradeOnlyAfterPrefixes
  /\ HandlerOnlyAfterUpgrade
  /\ NeverWithoutUpgrade

\* An upgrade request whose two prefix handlers ran, whose upgrade
\* completed and whose websocket handler has settled.
C25_Witness ==
  /\ pc = "sent"
  /\ Len(MatchedPrefixes) = 2
  /\ \E j \in 1..Len(events) : IsSettle(j, "websocket")
  /\ requestContext.routeParameters # NoParameters

(***************************************************************************)
(* C26.  On the upgrade path an HTTP response is sent if and only if the   *)
(* upgrade never completed (websocket handler not found, prefix            *)
(* short-circuit, or an error before the upgrade; the error case with      *)
(* status 500).  The socket is destroyed in exactly those cases and when   *)
(* the handler throws after the upgrade, in which case no HTTP response    *)
(* is sent; after a completed upgrade whose handler returns normally, no   *)
(* response is sent and the socket is not destroyed.                       *)
(***************************************************************************)
\* upgradeListener has returned, or the promise it returned has rejected.
UpgradeOver == pc \in {"sent", "rejected"}

ResponseSent == wire # <<>>

C26_ResponseIffNotUpgraded ==
  UpgradeOver =>
    /\ ResponseSent <=> ~upgrade.hasUpgradedConnection
    /\ (requestError # Undefined /\ ~upgrade.hasUpgradedConnection)
         => (ResponseSent /\ wire[1].status = 500)
    /\ upgrade.destroyed <=> (~upgrade.hasUpgradedConnection \/ requestError # Undefined)

(***************************************************************************)
(* C27.  For every upgrade request, assuming the invoked callbacks and     *)
(* the protocol upgrade complete, each matching monitor is invoked         *)
(* exactly once on every outcome (handler not found, prefix                *)
(* short-circuit, successful handler, error before or after the upgrade),  *)
(* before any response is sent or the socket is destroyed; the monitor's   *)
(* context.error is the thrown value when the handler threw and undefined  *)
(* when it succeeded.                                                      *)
(***************************************************************************)
WebsocketHandlerThrew(i) == IsSettle(i, "websocket") /\ events[i].b.outcome = "throw"

WebsocketHandlerReturned(i) == IsSettle(i, "websocket") /\ events[i].b.outcome = "return"

C27_UpgradeMonitorsOnce ==
  /\ \A d \in MatchedIn("monitor") :
       /\ Cardinality(MonitorCalls(d.id)) <= 1
       /\ (UpgradeOver \/ ResponseSent \/ upgrade.destroyed)
            => Cardinality(MonitorCalls(d.id)) = 1
  /\ \A j \in EventIdx :
       IsInvoke(j, "monitor") =>
         /\ \A i \in EventIdx : WebsocketHandlerThrew(i) => monitorContext.error = events[i].value
         /\ \A i \in EventIdx : WebsocketHandlerReturned(i) => monitorContext.error = Undefined

(***************************************************************************)
(* C28.  Once a response has entered streaming mode (getWriteStream was    *)
(* called), later setStatus and setBody calls on it do not affect what is  *)
(* transmitted: the status and content type sent are the ones captured at  *)
(* the moment streaming started, and the transmission writes either the    *)
(* buffered body or the stream, never both.                                *)
(***************************************************************************)
\* The transmission writes a buffered body, or pipes the stream, or (for a
\* HEAD request) does neither.
BodyOrStream ==
  /\ wire[1].sent = "pipe" => (Transmitted.stream /\ wire[1].body = "")
  /\ wire[1].sent = "end" => (~Transmitted.stream /\ wire[1].body = Transmitted.body)
  /\ wire[1].sent = "head" => wire[1].body = ""

C28_StreamingFrozen ==
  (pc = "sent" /\ Transmitted.stream) =>
    /\ wire[1].status = 200
    /\ wire[1].headers["Content-Type"] = EventStream
    /\ wire[1].body # "Mutated"
    /\ BodyOrStream

(***************************************************************************)
(* C29.  If the context's response is in streaming mode when the main      *)
(* handler returns, the handler's return value is discarded whatever it    *)
(* is: the context's response object is not replaced and the streaming     *)
(* response (its stream, status and content type) is what is transmitted.  *)
(***************************************************************************)
\* Event i is the return of the main handler, and by then a handler of the
\* request had asked the response of the context for its write stream.
StreamingAtMainReturn(i) ==
  /\ IsSettle(i, "handler")
  /\ events[i].b.outcome = "return"
  /\ \E k \in 1..i : events[k].e = "settle" /\ events[k].b.effect = "getWriteStream"

\* The context still has the response it was made with (the first object
\* of the heap), which is a stream, and what
\* is written is its status and content type and (but for a HEAD request)
\* its stream.
StreamTransmitted ==
  /\ requestContext.response = 1
  /\ Transmitted.stream
  /\ pc = "sent" =>
       /\ wire[1].status = Transmitted.status
       /\ wire[1].headers["Content-Type"] = Transmitted.contentType
       /\ ~isHeadRequest => (wire[1].sent = "pipe" /\ wire[1].body = "")

\* A postfix handler threw or returned a truthy value after event i.
ReplacedAfter(i) == \E j \in (i + 1)..Len(events) : Threw(j) \/ ShortCircuited(j)

\* C29 as stated: whatever follows the return of the main handler.
C29_StreamAlwaysTransmitted ==
  \A i \in EventIdx : StreamingAtMainReturn(i) => StreamTransmitted

\* C29, amended: the value the main handler returns never replaces a
\* response in streaming mode, and that response is what is transmitted
\* unless a postfix handler then throws or returns a truthy value.
C29_ReturnValueDiscarded ==
  \A i \in EventIdx :
    (StreamingAtMainReturn(i) /\ ~ReplacedAfter(i)) => StreamTransmitted

\* The main handler took the write stream and returned an HTTPResult of
\* status 201; the response written is the stream, with status 200.
C29_Witness ==
  /\ pc = "sent"
  /\ ~isHeadRequest
  /\ \E i \in EventIdx :
       /\ StreamingAtMainReturn(i)
       /\ events[i].b.effect = "getWriteStream"
       /\ events[i].value.t = "HTTPResult"
       /\ ~ReplacedAfter(i)
  /\ wire[1].sent = "pipe"
  /\ wire[1].status = 200
  /\ wire[1].headers["Content-Type"] = EventStream

(***************************************************************************)
(* C30.  The api-util helpers report failure only by throwing an           *)
(* HTTPResult carrying the caller's status code: assert(condition, code,   *)
(* message) returns normally iff condition is truthy and otherwise throws  *)
(* HTTPResult(code, message); assertValidation(body, validator,            *)
(* errorFunc, code) returns the validator's value when the validator       *)
(* returns, and whenever the validator throws any value it throws an       *)
(* HTTPResult with status code (default 400) whose body is                 *)
(* errorFunc(error) if an error mapper is given and the error's            *)
(* toString() otherwise.                                                   *)
(***************************************************************************)
\* The call threw an HTTPResult of the status given.
ThrewResult(done, status) ==
  /\ done.outcome = "throw"
  /\ done.thrown = "HTTPResult"
  /\ done.result.status = status

AssertContract ==
  util.fn = "assert" =>
    IF Truthy(util.condition)
    THEN util.done.outcome = "return"
    ELSE /\ ThrewResult(util.done, util.code)
         /\ util.done.result.body = util.message

ValidationReturns ==
  (util.fn = "assertValidation" /\ util.validator.op # "throw") =>
    /\ util.done.outcome = "return"
    /\ util.done.value = IF util.validator.op = "pass" THEN util.body
                         ELSE util.validator.value

ValidationThrows ==
  (util.fn = "assertValidation" /\ util.validator.op = "throw") =>
    /\ ThrewResult(util.done, IF util.code = <<>> THEN 400 ELSE util.code[1])
    /\ util.errorFunc # <<>> =>
         util.done.result = NewHTTPResult(util.done.result.status, util.errorFunc[1], <<>>)
    /\ (util.errorFunc = <<>> /\ IsObject(util.validator.value)
          /\ HasToString(util.validator.value)) =>
         util.done.result.body = toString(util.validator.value)

C30_UtilThrowsHTTPResult ==
  /\ AssertContract
  /\ ValidationReturns
  /\ ValidationThrows

(***************************************************************************)
(* C32.  When several handlers are registered in mode handler for the      *)
(* same method and the same pattern, the single lookup always returns the  *)
(* one registered first among those still registered: later registrations  *)
(* never shadow it, and after it is unregistered the next-registered one   *)
(* is returned.                                                            *)
(***************************************************************************)
\* The two handlers declared for GET /a/end.
Twins == {"static", "twin"}

\* The single lookup of GET /a/end in the table r.
TwinLookup(r) == getHandler("get", SplitPath(LocAEnd), r["handler"], FALSE)

C32_FirstRegisteredWins ==
  [][LET before == TwinLookup(roots)
         after == TwinLookup(roots')
         left == Twins \cap registeredRoutes'
     IN /\ left # {} => (after.found /\ after.list[1].handler \in left)
        /\ (before.found /\ before.list[1].handler \in left)
             => after.list[1].handler = before.list[1].handler]_vars

\* Both are registered and the lookup returns `twin`: `static` was
\* unregistered and registered again after it.
C32_Witness ==
  /\ Twins \subseteq registeredRoutes
  /\ TwinLookup(roots).found
  /\ TwinLookup(roots).list[1].handler = "twin"

(***************************************************************************)
(* C33.  For a HEAD request whose main handler is resolved through the     *)
(* GET retry, only the main-handler lookup uses method get: the prefix,    *)
(* postfix and monitor lookups use method head (plus the any root), so     *)
(* prefix, postfix and monitor handlers registered for method get on that  *)
(* path are not invoked for the HEAD request although the GET main         *)
(* handler is.                                                             *)
(***************************************************************************)
\* The request is a HEAD request and its main handler is one of the root
\* `get`.
ResolvedByGetRetry ==
  /\ pc # "idle"
  /\ method = "head"
  /\ handler.found
  /\ RootOf(handler.list[1].handler) = "get"

C33_HeadRetryMainOnly ==
  ResolvedByGetRetry =>
    /\ \A j \in EventIdx :
         IF events[j].mode = "handler"
         THEN events[j].cb = handler.list[1].handler
         ELSE RootOf(events[j].cb) \in {"head", "any"}
    /\ (pc = "sent" /\ \A j \in EventIdx : events[j].mode = "prefix" => ~Threw(j) /\ ~ShortCircuited(j))
         => \E j \in EventIdx : IsInvoke(j, "handler")
    /\ pc = "sent" =>
         {events[j].cb : j \in {i \in EventIdx : IsInvoke(i, "monitor")}}
           = {d.id : d \in MatchedIn("monitor")}

\* HEAD /a with the main handler, a prefix handler and a monitor all
\* registered for GET /a: the main handler ran, the two others did not.
C33_Witness ==
  /\ ResolvedByGetRetry
  /\ pc = "sent"
  /\ {"main", "preA", "monA"} \subseteq registeredRoutes
  /\ \E j \in EventIdx : IsSettle(j, "handler") /\ events[j].cb = "main"
  /\ \A j \in EventIdx : events[j].cb \notin {"preA", "postA", "monA"}

(***************************************************************************)
(* C34.  A registerHandler call that throws registers nothing: for every   *)
(* mode, method and path, single and multi lookups return the same         *)
(* results after the failed call as before it, even though the call may    *)
(* already have created empty method roots or intermediate trie nodes      *)
(* before failing.                                                         *)
(***************************************************************************)
\* The step is a registerHandler call that threw.
RegistrationFailed == registerErrors' # registerErrors

\* Every lookup of the path gives in the table `after` what it gave in the
\* table `before`.
SameLookups(before, after, url) ==
  \A mode \in Modes, m \in LookupMethods, multi \in BOOLEAN :
    getHandler(m, SplitPath(url), after[mode], multi)
      = getHandler(m, SplitPath(url), before[mode], multi)

C34_FailedRegistrationInert ==
  [][RegistrationFailed =>
       \A url \in {LocRoot, LocA, LocB, LocAB, LocConstructor} :
         SameLookups(roots, roots', url)]_vars

(***************************************************************************)
(* C35.  After any sequence of routesProxy.register and                    *)
(* routesProxy.unregister calls, including register calls that fail with   *)
(* a registration error, routesProxy.getRoutes() lists exactly the ids     *)
(* whose handlers are currently registered in the router's trie.           *)
(***************************************************************************)
RECURSIVE LevelIds(_)
\* The ids of the handlers held by the node and by the nodes below it.
LevelIds(level) ==
  {level.handlers[i].id : i \in 1..Len(level.handlers)}
    \cup UNION {LevelIds(level.staticRoutes[i].val) : i \in 1..Len(level.staticRoutes)}
    \cup UNION {LevelIds(level.dynamicRoutes[i].val.sub) : i \in 1..Len(level.dynamicRoutes)}
    \cup UNION {LevelIds(level.catchAllRoutes[k].level) : k \in 1..Len(level.catchAllRoutes)}

TrieIds ==
  UNION {UNION {LevelIds(roots[mode][i].val) : i \in 1..Len(roots[mode])} : mode \in Modes}

\* The ids that getRoutes lists, as registerHandler is given them.
ListedIds == {"dev/" \o id : id \in registeredRoutes}

C35_RoutesListMatchesTrie == ListedIds = TrieIds

(***************************************************************************)
(* C37.  For every HTTP request, the callbacks settling, the response is   *)
(* transmitted exactly once on every path through the dispatcher           *)
(* (unmatched, prefix short-circuit, OPTIONS without handler, normal       *)
(* completion, handler error), and only after every matched monitor has    *)
(* completed: nothing is written twice, nothing is written before the      *)
(* matched monitors have settled, and a listener that is through with the  *)
(* request has written one response.                                       *)
(***************************************************************************)
C37_TransmittedExactlyOnce ==
  /\ Len(wire) <= 1
  /\ wire # <<>> => MonitorsRan
  /\ Over => Len(wire) = 1

(***************************************************************************)
(* C39.  When a prefix, main or postfix handler returns an HTTPResult      *)
(* that carries a header name also present on the response of the context, *)
(* the merged response that replaces the response of the context keeps the *)
(* value of the context for that name; the headers present on only one of  *)
(* the two are all kept.                                                   *)
(***************************************************************************)
\* The step settles a prefix, main or postfix handler that returns an
\* HTTPResult with headers of its own.
ReturnsWithHeaders ==
  /\ Len(events') = Len(events) + 1
  /\ LET e == events'[Len(events')]
     IN /\ e.e = "settle" /\ e.mode # "monitor"
        /\ e.b.outcome = "return" /\ e.b.value = "HTTPResultWithHeaders"

\* The headers of the response of the context when the callback returns.
ContextHeaders(e) ==
  ApplyEffect(heap, requestContext.response, e.b.effect, e.cb)[requestContext.response].headers

\* The headers merged are the union of the two, a name of both with the
\* value the context has for it.
MergedFrom(merged, context, result) ==
  /\ DOMAIN merged = (DOMAIN context) \cup (DOMAIN result)
  /\ \A n \in DOMAIN context : merged[n] = context[n]
  /\ \A n \in (DOMAIN result) \ (DOMAIN context) : merged[n] = result[n]

C39_ContextHeadersWin ==
  [][(/\ ReturnsWithHeaders
      /\ events'[Len(events')].mode = "handler" => ~heap'[requestContext.response].stream) =>
       LET e == events'[Len(events')]
       IN /\ requestContext'.response = e.value.ref
          /\ requestContext'.response # requestContext.response
          /\ MergedFrom(heap'[e.value.ref].headers, ContextHeaders(e), OwnHeaders(e.cb))]_vars

\* The main handler returns an HTTPResult with its two headers after a
\* prefix handler has set the shared name and another one on the response
\* of the context: the response written has the shared name with the
\* value of the context and the two other headers.
C39_Witness ==
  /\ pc = "sent"
  /\ \E i \in EventIdx, j \in EventIdx, k \in EventIdx :
       /\ i < k /\ j < k
       /\ IsSettle(i, "prefix") /\ events[i].b.effect = "shareHeader"
       /\ IsSettle(j, "prefix") /\ events[j].b.effect = "addHeader"
       /\ IsSettle(k, "handler") /\ events[k].b.value = "HTTPResultWithHeaders"
       /\ events[k].b.effect = "none"
       /\ \A m \in EventIdx : IsSettle(m, "postfix") => events[m].b.value = "undefined" /\ events[m].b.effect = "none"
  /\ wire[1].headers[SharedHeader] = "context"
  /\ wire[1].headers["x-own"] = "main"
  /\ \E cb \in {"cors", "preA"} : HeaderOf(cb) \in DOMAIN wire[1].headers

(***************************************************************************)
(* C38.  Whenever a prefix, main, postfix or monitor handler is invoked,   *)
(* context.routeParameters holds exactly the parameters captured by that   *)
(* handler's own pattern for the request path (its dynamic and catch-all   *)
(* captures), never the parameters left behind by a handler invoked        *)
(* before it in the same request.                                          *)
(***************************************************************************)
RECURSIVE OwnCaptures(_, _, _)
\* What the pattern captures from the segments it is matched against, added
\* to `got`: a dynamic segment binds its name to the segment, a catch-all
\* one binds its name to the segments up to its suffix, joined.
OwnCaptures(parts, segs, got) ==
  IF parts = <<>> THEN got
  ELSE IF IsCatchAll(parts[1])
  THEN SetParameter(got, SubSeq(parts[1], 3, Len(parts[1])),
                    Slashed(SubSeq(segs, 1, Len(segs) - Len(parts) + 1)))
  ELSE IF IsDynamic(parts[1])
  THEN OwnCaptures(Tail(parts), Tail(segs),
                   SetParameter(got, SubSeq(parts[1], 2, Len(parts[1])), segs[1]))
  ELSE OwnCaptures(Tail(parts), Tail(segs), got)

\* The context that the handler being awaited was called with.
ContextGiven == IF pc = "monitor" THEN monitorContext ELSE requestContext

C38_OwnRouteParameters ==
  (awaiting # <<>> /\ pc \in {"prefix", "handler", "postfix", "monitor"}) =>
    ContextGiven.routeParameters =
      OwnCaptures(DeclParts(DeclOf(awaiting[1].handler)), path, NoParameters)

\* GET /a/b/c/end: the postfix handler of /::rest is called with rest =
\* "a/b/c/end" alone, after the prefix handler of /:id and the main handler
\* of /::x/end have been called.
C38_Witness ==
  /\ pc = "postfix"
  /\ awaiting # <<>>
  /\ awaiting[1].handler = "postRest"
  /\ \E i \in EventIdx, j \in EventIdx :
       /\ i < j
       /\ IsInvoke(i, "prefix") /\ events[i].cb = "preId"
       /\ IsInvoke(j, "handler") /\ events[j].cb = "upToEnd"
  /\ DOMAIN requestContext.routeParameters = {<<"r", "e", "s", "t">>}
  /\ requestContext.routeParameters[<<"r", "e", "s", "t">>] =
       <<"a", "/", "b", "/", "c", "/", "e", "n", "d">>

(***************************************************************************)
(* C36.  Each lookup runs atomically with respect to registerHandler and   *)
(* unregisterHandler, but one request performs its lookups at different    *)
(* times: the main handler is resolved once, before the prefix phase, and  *)
(* is the one invoked even if it is unregistered (or a preferred route is  *)
(* registered) while prefix handlers are suspended, whereas the postfix    *)
(* and monitor lookups observe the trie as it is when their own phase      *)
(* starts.                                                                 *)
(***************************************************************************)
\* The ids of the registered handlers of the phase that apply to the
\* request.
MatchedIds(mode) == {d.id : d \in MatchedIn(mode)}

\* The step calls the main handler.
MainCalled ==
  /\ Len(events') = Len(events) + 1
  /\ events'[Len(events')].e = "invoke"
  /\ events'[Len(events')].mode = "handler"

\* What a lookup of the main handler in the trie as it is now resolves to.
ResolvedNow == getHandler(method, path, roots["handler"], FALSE)

C36_LookupTimes ==
  [][/\ (pc # "idle" /\ pc' # "idle") => handler' = handler
     /\ (pc = "idle" /\ pc' # "idle") => handler' = ResolvedNow'
     /\ MainCalled => events'[Len(events')].cb = handler.list[1].handler
     /\ (pc # "postfix" /\ pc' = "postfix") => Pending' = MatchedIds("postfix")'
     /\ (pc # "monitor" /\ pc' = "monitor") => Pending' = MatchedIds("monitor")'
     /\ (pc = pc' /\ pc \in {"postfix", "monitor"}) => Pending' \subseteq Pending]_vars

\* The main handler is being called although it was unregistered while the
\* prefix handler was suspended; the postfix handler registered meanwhile
\* will be found when the postfix phase starts.
C36_Witness ==
  /\ pc = "handler"
  /\ awaiting # <<>>
  /\ awaiting[1].handler = "mainAny"
  /\ "mainAny" \notin registeredRoutes
  /\ "main" \in registeredRoutes
  /\ ResolvedNow.found /\ ResolvedNow.list[1].handler = "main"
  /\ \E i \in EventIdx : IsSettle(i, "prefix")

(***************************************************************************)
(* C40.  The monitor snapshot context shares the controller-instance cache *)
(* of the request with the original context: a controller instance created *)
(* during the prefix, main or postfix phase is the instance returned to    *)
(* the monitor handlers of the same class in that request, and its         *)
(* computed properties are not computed again against the snapshot         *)
(* context: they were computed with the original context.                  *)
(***************************************************************************)
ControllerCalls == 1..Len(controllers.calls)

\* Call g was made with the context of the request and has returned an
\* instance of the class.
CreatedBefore(g, cls) ==
  /\ controllers.calls[g].context = Running
  /\ controllers.calls[g].cls = cls
  /\ controllers.calls[g].state = "resolved"

\* The computeParameter calls made with the context.
ComputedWith(context) == {c \in 1..Len(compute) : compute[c].context = context}

C40_MonitorsShareControllers ==
  \A g \in ControllerCalls, h \in ControllerCalls :
    ( /\ CreatedBefore(g, controllers.calls[h].cls)
      /\ controllers.calls[h].context = SnapshotOf(Running) ) =>
      /\ controllers.calls[h].state = "resolved"
      /\ controllers.calls[h].instance = controllers.calls[g].instance
      /\ controllers.calls[h].first > controllers.calls[h].last
      /\ controllers.made[controllers.calls[h].instance].context = Running
      /\ \A c \in 1..Len(compute) :
           compute[c].obj = controllers.calls[h].instance => compute[c].context = Running

\* The main handler was given an instance of A whose property `user` was
\* computed with the context of the request; the monitor, of class A too,
\* has been given that instance and nothing was computed with its context.
C40_Witness ==
  /\ pc = "sent"
  /\ \E g \in ControllerCalls, h \in ControllerCalls :
       /\ CreatedBefore(g, "A")
       /\ controllers.calls[h].context = SnapshotOf(Running)
       /\ controllers.calls[h].cls = "A"
       /\ controllers.calls[h].instance = controllers.calls[g].instance
       /\ controllers.made[controllers.calls[g].instance].props # <<>>
  /\ ComputedWith(Running) # {}
  /\ ComputedWith(SnapshotOf(Running)) = {}

(***************************************************************************)
(* C31.  The callback of a registered handler is invoked only after the    *)
(* computed properties of its controller instance have all resolved and    *)
(* then all of its declared parameters have resolved; argument i of the    *)
(* call is the value of the computed parameter declared at index i         *)
(* (undefined where none is declared), resolved afresh on every            *)
(* invocation; if a provider or a modifier throws, the callback is not     *)
(* invoked and the error reaches the dispatcher as a handler error.        *)
(***************************************************************************)
Activations == 1..Len(controllers.applies)

\* The greatest index at which the handler declares a parameter.
MaxIndex(paramsMap) ==
  LET indices == {entry.index : entry \in paramsMap} \cup {0}
  IN CHOOSE m \in indices : \A n \in indices : n <= m

HasChain(param) == ~param.isNull /\ param.provider # <<>>

\* Some parameter declared by the handler has a stage that throws.
SomeThrows(paramsMap) ==
  \E entry \in paramsMap :
    HasChain(entry.parameter) /\ StageThrows(entry.parameter, Len(entry.parameter.modifiers))

\* The value of the parameter declared at index i, undefined where none is.
ArgumentAt(paramsMap, i) ==
  IF DeclaredAt(paramsMap, i) = {} THEN Undefined
  ELSE LET param == (CHOOSE entry \in DeclaredAt(paramsMap, i) : TRUE).parameter
       IN IF HasChain(param) THEN StageValue(param, Len(param.modifiers)) ELSE Undefined

\* The controller call of the n-th callback that the dispatcher has called
\* was rejected, or the parameters computed after it were.
RejectedBeforeCallback(n) ==
  /\ n <= Len(controllers.calls)
  /\ \/ controllers.calls[n].state = "rejected"
     \/ \E k \in Activations :
          controllers.applies[k].g = n /\ controllers.applies[k].state = "rejected"

\* The callback of the n-th invocation has been applied.
Applied(n) ==
  \E k \in Activations :
    controllers.applies[k].g = n /\ controllers.applies[k].state = "applied"

\* The invocation that event i belongs to.
InvocationOf(i) == Cardinality({j \in 1..i : events[j].e = "invoke"})

C31_CallbackAfterResolution ==
  /\ \A k \in Activations :
       LET a == controllers.applies[k]
           get == controllers.calls[a.g]
       IN /\ get.state = "resolved"
          /\ a.this = get.instance
          /\ Len(controllers.made[a.this].props) = Len(computed_props(get.cls))
          /\ \A c \in 1..Len(compute) : compute[c].obj = a.this => compute[c].state = "resolved"
          /\ \A i \in 1..Len(a.calls) :
               /\ a.calls[i].context = a.context
               /\ a.calls[i].obj = a.this
               /\ HasChain(a.calls[i].param) => Invocations(a.calls[i]) # {}
          /\ a.state = "applied" =>
               /\ \A i \in 1..Len(a.calls) : a.calls[i].state = "resolved"
               /\ Len(a.args) = MaxIndex(a.declared) + 1
               /\ \A i \in 0..MaxIndex(a.declared) : a.args[i + 1] = ArgumentAt(a.declared, i)
               /\ ~SomeThrows(a.declared)
          /\ a.state = "rejected" => SomeThrows(a.declared)
  /\ \A i \in EventIdx :
       events[i].e = "settle" =>
         IF RejectedBeforeCallback(InvocationOf(i))
         THEN /\ ~Applied(InvocationOf(i))
              /\ events[i].b.outcome = "throw"
              /\ events[i].value = Err(Str("boom"))
              /\ events[i].mode # "monitor" =>
                   /\ requestError = events[i].value
                   /\ \A j \in (i + 1)..Len(events) : events[j].mode = "monitor"
                   /\ pc = "sent" => wire[1].status = 500
         ELSE Applied(InvocationOf(i))

\* The request is answered.  Its prefix handler and its main handler, of
\* class A, declare the same two parameters: each was called with 1 and 3
\* on the one instance, whose property was computed before, and the values
\* were computed twice.
C31_Witness ==
  /\ pc = "sent"
  /\ \E k \in Activations, l \in Activations :
       /\ k < l
       /\ controllers.applies[k].declared = controllers.applies[l].declared
       /\ controllers.applies[k].state = "applied"
       /\ controllers.applies[l].state = "applied"
       /\ controllers.applies[l].args = <<Num(1), Num(3)>>
       /\ controllers.applies[k].this = controllers.applies[l].this
       /\ controllers.made[controllers.applies[l].this].props # <<>>
       /\ \A i \in 1..2 :
            /\ Invocations(controllers.applies[k].calls[i]) # {}
            /\ Invocations(controllers.applies[l].calls[i]) # {}

====
